---------------------------- MODULE Spec2Model ----------------------------
(***************************************************************************)
(* Grid inventory, equipment slots and the InventoryComponent facade of    *)
(* ThreeForge (src/src/inventory).  Every method is a pure operator from a *)
(* world record (the fields of all objects, plus the events emitted so     *)
(* far) to a result record [s |-> world after, ret |-> return value]; an   *)
(* action applies one method to the current world.                         *)
(***************************************************************************)
EXTENDS Integers, Sequences, FiniteSets, TLC

(***************************************************************************)
(* Bounds of the model.                                                    *)
(***************************************************************************)
GridW == 2          \* columns of inventory 1, which has two rows
MaxStack == 2       \* maxStack of the stackable item definition

(* new Inventory(config.inventory ?? { width: 0, height: 0 }) *)
DefaultSize == 0

Null == "null"      \* null: an empty cell, an empty slot, "no item"

(***************************************************************************)
(* Item definitions (ItemConfig) and the item instances of the model.      *)
(* potion1 and potion2 share one stackable definition; the others are      *)
(* equipment.                                                              *)
(***************************************************************************)
NoTag == ""         \* config.equipSlot undefined

PotionConfig == [id |-> "potion", width |-> 1, height |-> 1,
                 maxStack |-> MaxStack, equipSlot |-> NoTag]
SwordConfig  == [id |-> "sword",  width |-> 1, height |-> 2,
                 maxStack |-> 1, equipSlot |-> "weapon"]
DaggerConfig == [id |-> "dagger", width |-> 1, height |-> 1,
                 maxStack |-> 1, equipSlot |-> "weapon"]
AxeConfig    == [id |-> "axe",    width |-> 2, height |-> 1,
                 maxStack |-> 1, equipSlot |-> "weapon"]
RingConfig   == [id |-> "ring",   width |-> 1, height |-> 1,
                 maxStack |-> 1, equipSlot |-> "ring"]

Items == {"potion1", "potion2", "sword", "dagger", "axe", "ring"}

config(item) ==
  CASE item \in {"potion1", "potion2"} -> PotionConfig
    [] item = "sword"  -> SwordConfig
    [] item = "dagger" -> DaggerConfig
    [] item = "axe"    -> AxeConfig
    [] item = "ring"   -> RingConfig

(* The items each specification passes to the methods. *)
InventoryItems == {"potion1", "potion2", "axe"}
ComponentItems == {"sword", "dagger", "axe", "ring"}

(* Item getters. *)
id(item)        == config(item).id
width(item)     == config(item).width
height(item)    == config(item).height
maxStack(item)  == config(item).maxStack
equipSlot(item) == config(item).equipSlot
isStackable(item) == maxStack(item) > 1

(* new Item(config, quantity): quantity = min(quantity, maxStack). *)
Min(a, b) == IF a < b THEN a ELSE b
NewQuantity(item, quantity) == Min(quantity, maxStack(item))

(***************************************************************************)
(* Inventories (InventoryConfig).  1 is a grid of GridW columns and two     *)
(* rows, owned by the component; 2 is a one-cell grid; 3 has the zero size *)
(* InventoryComponent defaults to.                                         *)
(***************************************************************************)
Inventories == {1, 2, 3}
invWidth(k)  == CASE k = 1 -> GridW [] k = 2 -> 1 [] k = 3 -> DefaultSize
invHeight(k) == CASE k = 1 -> 2     [] k = 2 -> 1 [] k = 3 -> DefaultSize

(***************************************************************************)
(* Equipment slots of the component, in registration order (a subset of    *)
(* DEFAULT_EQUIPMENT_SLOTS).                                               *)
(***************************************************************************)
SlotIds == <<"mainHand", "ring1", "ring2">>
acceptedTypes(slotId) ==
  CASE slotId = "mainHand" -> {"weapon", "sword", "axe", "mace", "staff", "mainHand"}
    [] slotId = "ring1"    -> {"ring", "accessory"}
    [] slotId = "ring2"    -> {"ring", "accessory"}
SlotSet == {SlotIds[n] : n \in 1..Len(SlotIds)}

VARIABLES
  grid,       \* grid[k][y][x]: Inventory.grid, the item of a cell or Null
  items,      \* items[k]: Inventory.items, a Set in insertion order
  quantity,   \* quantity[item]: Item._quantity
  gridX,      \* gridX[item]: Item.gridX
  gridY,      \* gridY[item]: Item.gridY
  equipped,   \* equipped[slotId]: Equipment.equipped
  slots,      \* slots[slotId]: the acceptedTypes of Equipment.slots
  states,               \* StateMachine.states: registered name -> config
  currentState,         \* StateMachine._currentState
  previousState,        \* StateMachine._previousState
  globalTransitions,    \* StateMachine.globalTransitions
  context,              \* StateMachine._context: the keys that are true
  draggedItem,          \* InventoryScreen.draggedItem
  draggedFromInventory, \* InventoryScreen.draggedFromInventory
  draggedFromSlot,      \* InventoryScreen.draggedFromSlot
  draggedFromPos        \* InventoryScreen.draggedFromPos: <<>> or <<x, y>>

machineVars == <<states, currentState, previousState, globalTransitions, context>>
dragVars == <<draggedItem, draggedFromInventory, draggedFromSlot, draggedFromPos>>
vars == <<grid, items, quantity, gridX, gridY, equipped, slots, machineVars, dragVars>>

(* The world the methods read and write; ev collects the emitted events. *)
World == [grid |-> grid, items |-> items, quantity |-> quantity,
          gridX |-> gridX, gridY |-> gridY, equipped |-> equipped, slots |-> slots,
          draggedItem |-> draggedItem, draggedFromInventory |-> draggedFromInventory,
          draggedFromSlot |-> draggedFromSlot, draggedFromPos |-> draggedFromPos,
          ev |-> <<>>]

Has(seq, x) == \E n \in 1..Len(seq) : seq[n] = x
Delete(seq, x) == SelectSeq(seq, LAMBDA e : e # x)
Result(s, ret) == [s |-> s, ret |-> ret]

(* The emitters of the events. *)
inventory(k) == CASE k = 1 -> "inventory1" [] k = 2 -> "inventory2" [] k = 3 -> "inventory3"
equipment == "equipment"

(* EventEmitter.emit: the event is delivered in line; the log keeps the order. *)
Emit(s, event) == [s EXCEPT !.ev = Append(@, event)]

(***************************************************************************)
(* Item (src/src/inventory/Item.ts)                                        *)
(***************************************************************************)
canAddMore(s, item) == s.quantity[item] < maxStack(item)

(* addQuantity without the cut at maxStack: what the stack properties rule out. *)
addQuantityUncut(s, item, amount) ==
  Result([s EXCEPT !.quantity[item] = @ + amount], amount)

addQuantity(s, item, amount) ==
  LET canAdd == maxStack(item) - s.quantity[item]
      added  == Min(amount, canAdd)
  IN  Result([s EXCEPT !.quantity[item] = @ + added], added)

removeQuantity(s, item, amount) ==
  LET removed == Min(amount, s.quantity[item])
  IN  Result([s EXCEPT !.quantity[item] = @ - removed], removed)

(* split: ret is <<>> for null, or <<q>> for a new instance of the same *)
(* config with quantity q, as its constructor sets it.                 *)
split(s, item, amount) ==
  IF amount <= 0 \/ amount >= s.quantity[item] THEN Result(s, <<>>)
  ELSE Result([s EXCEPT !.quantity[item] = @ - amount], <<NewQuantity(item, amount)>>)

canStackWith(item, other) == id(item) = id(other) /\ isStackable(item)

(***************************************************************************)
(* Inventory (src/src/inventory/Inventory.ts)                              *)
(***************************************************************************)
EmptyGrid(k) == [y \in 0..(invHeight(k) - 1) |-> [x \in 0..(invWidth(k) - 1) |-> Null]]

(* canPlaceAt with the range check alone: what the overlap properties rule out. *)
canPlaceAtInRange(s, k, item, x, y) ==
  ~(x < 0 \/ y < 0 \/ x + width(item) > invWidth(k) \/ y + height(item) > invHeight(k))

(* canPlaceAt without the exception for the item's own cells. *)
canPlaceAtOnEmpty(s, k, item, x, y) ==
  IF x < 0 \/ y < 0 \/ x + width(item) > invWidth(k) \/ y + height(item) > invHeight(k)
  THEN FALSE
  ELSE \A dy \in 0..(height(item) - 1), dx \in 0..(width(item) - 1) :
         s.grid[k][y + dy][x + dx] = Null

canPlaceAt(s, k, item, x, y) ==
  IF x < 0 \/ y < 0 \/ x + width(item) > invWidth(k) \/ y + height(item) > invHeight(k)
  THEN FALSE
  ELSE \A dy \in 0..(height(item) - 1), dx \in 0..(width(item) - 1) :
         LET cell == s.grid[k][y + dy][x + dx]
         IN  ~(cell # Null /\ cell # item)

(* clearItemFromGrid that empties the cell at the stored position alone. *)
clearItemFromGridAtAnchor(s, k, item) ==
  [s EXCEPT !.grid[k] =
     [y \in 0..(invHeight(k) - 1) |->
        [x \in 0..(invWidth(k) - 1) |->
           IF @[y][x] = item /\ x = s.gridX[item] /\ y = s.gridY[item]
           THEN Null ELSE @[y][x]]]]

clearItemFromGrid(s, k, item) ==
  [s EXCEPT !.grid[k] =
     [y \in 0..(invHeight(k) - 1) |->
        [x \in 0..(invWidth(k) - 1) |-> IF @[y][x] = item THEN Null ELSE @[y][x]]]]

(* placeAt that reads oldX and oldY after it has stored the new position. *)
placeAtReadingOldLate(s, k, item, x, y) ==
  IF ~canPlaceAt(s, k, item, x, y) THEN Result(s, FALSE)
  ELSE
    LET s1 == IF Has(s.items[k], item) THEN clearItemFromGrid(s, k, item) ELSE s
        s2 == [s1 EXCEPT !.grid[k] =
                 [yy \in 0..(invHeight(k) - 1) |->
                    [xx \in 0..(invWidth(k) - 1) |->
                       IF /\ y <= yy /\ yy < y + height(item)
                          /\ x <= xx /\ xx < x + width(item)
                       THEN item ELSE @[yy][xx]]]]
        wasNew == ~Has(s2.items[k], item)
        s3 == [s2 EXCEPT !.gridX[item] = x, !.gridY[item] = y,
                         !.items[k] = IF wasNew THEN Append(@, item) ELSE @]
        oldX == s3.gridX[item]
        oldY == s3.gridY[item]
        s4 == IF wasNew
              THEN Emit(s3, <<inventory(k), "itemAdded", item, x, y>>)
              ELSE Emit(s3, <<inventory(k), "itemMoved", item, oldX, oldY, x, y>>)
    IN  Result(Emit(s4, <<inventory(k), "changed">>), TRUE)

(* placeAt that leaves the old footprint of a moved item in the grid. *)
placeAtKeepingOld(s, k, item, x, y) ==
  IF ~canPlaceAt(s, k, item, x, y) THEN Result(s, FALSE)
  ELSE
    LET s1 == s
        s2 == [s1 EXCEPT !.grid[k] =
                 [yy \in 0..(invHeight(k) - 1) |->
                    [xx \in 0..(invWidth(k) - 1) |->
                       IF /\ y <= yy /\ yy < y + height(item)
                          /\ x <= xx /\ xx < x + width(item)
                       THEN item ELSE @[yy][xx]]]]
        wasNew == ~Has(s2.items[k], item)
        s3 == [s2 EXCEPT !.gridX[item] = x, !.gridY[item] = y,
                         !.items[k] = IF wasNew THEN Append(@, item) ELSE @]
        oldX == s2.gridX[item]
        oldY == s2.gridY[item]
        s4 == IF wasNew
              THEN Emit(s3, <<inventory(k), "itemAdded", item, x, y>>)
              ELSE Emit(s3, <<inventory(k), "itemMoved", item, oldX, oldY, x, y>>)
    IN  Result(Emit(s4, <<inventory(k), "changed">>), TRUE)

(* placeAt that notifies 'changed' before it looks at canPlaceAt. *)
placeAtNotifyingFirst(s, k, item, x, y) ==
  IF ~canPlaceAt(s, k, item, x, y)
  THEN Result(Emit(s, <<inventory(k), "changed">>), FALSE)
  ELSE
    LET s1 == IF Has(s.items[k], item) THEN clearItemFromGrid(s, k, item) ELSE s
        s2 == [s1 EXCEPT !.grid[k] =
                 [yy \in 0..(invHeight(k) - 1) |->
                    [xx \in 0..(invWidth(k) - 1) |->
                       IF /\ y <= yy /\ yy < y + height(item)
                          /\ x <= xx /\ xx < x + width(item)
                       THEN item ELSE @[yy][xx]]]]
        wasNew == ~Has(s2.items[k], item)
        s3 == [s2 EXCEPT !.gridX[item] = x, !.gridY[item] = y,
                         !.items[k] = IF wasNew THEN Append(@, item) ELSE @]
        s4 == IF wasNew
              THEN Emit(s3, <<inventory(k), "itemAdded", item, x, y>>)
              ELSE Emit(s3, <<inventory(k), "itemMoved", item,
                              s2.gridX[item], s2.gridY[item], x, y>>)
    IN  Result(Emit(s4, <<inventory(k), "changed">>), TRUE)

placeAt(s, k, item, x, y) ==
  IF ~canPlaceAt(s, k, item, x, y) THEN Result(s, FALSE)
  ELSE
    LET s1 == IF Has(s.items[k], item) THEN clearItemFromGrid(s, k, item) ELSE s
        s2 == [s1 EXCEPT !.grid[k] =
                 [yy \in 0..(invHeight(k) - 1) |->
                    [xx \in 0..(invWidth(k) - 1) |->
                       IF /\ y <= yy /\ yy < y + height(item)
                          /\ x <= xx /\ xx < x + width(item)
                       THEN item ELSE @[yy][xx]]]]
        wasNew == ~Has(s2.items[k], item)
        oldX == s2.gridX[item]
        oldY == s2.gridY[item]
        s3 == [s2 EXCEPT !.gridX[item] = x, !.gridY[item] = y,
                         !.items[k] = IF wasNew THEN Append(@, item) ELSE @]
        s4 == IF wasNew
              THEN Emit(s3, <<inventory(k), "itemAdded", item, x, y>>)
              ELSE Emit(s3, <<inventory(k), "itemMoved", item, oldX, oldY, x, y>>)
    IN  Result(Emit(s4, <<inventory(k), "changed">>), TRUE)

isAreaEmpty(s, k, x, y, w, h) ==
  \A dy \in 0..(h - 1), dx \in 0..(w - 1) : s.grid[k][y + dy][x + dx] = Null

(* The scan of findEmptySpace from (x, y) on: <<x, y>> of the first hit, <<>> for null. *)
RECURSIVE findEmptySpaceFrom(_, _, _, _, _, _)
findEmptySpaceFrom(s, k, w, h, x, y) ==
  IF ~(y <= invHeight(k) - h) THEN <<>>
  ELSE IF ~(x <= invWidth(k) - w) THEN findEmptySpaceFrom(s, k, w, h, 0, y + 1)
  ELSE IF isAreaEmpty(s, k, x, y, w, h) THEN <<x, y>>
  ELSE findEmptySpaceFrom(s, k, w, h, x + 1, y)

(* findEmptySpace with < for <= in both loops: the last row and column are *)
(* never tried.                                                          *)
RECURSIVE findEmptySpaceShortFrom(_, _, _, _, _, _)
findEmptySpaceShortFrom(s, k, w, h, x, y) ==
  IF ~(y < invHeight(k) - h) THEN <<>>
  ELSE IF ~(x < invWidth(k) - w) THEN findEmptySpaceShortFrom(s, k, w, h, 0, y + 1)
  ELSE IF isAreaEmpty(s, k, x, y, w, h) THEN <<x, y>>
  ELSE findEmptySpaceShortFrom(s, k, w, h, x + 1, y)

findEmptySpaceShort(s, k, w, h) == findEmptySpaceShortFrom(s, k, w, h, 0, 0)

(* findEmptySpace with the loops exchanged: columns outside, rows inside. *)
RECURSIVE findEmptySpaceByColumnFrom(_, _, _, _, _, _)
findEmptySpaceByColumnFrom(s, k, w, h, x, y) ==
  IF ~(x <= invWidth(k) - w) THEN <<>>
  ELSE IF ~(y <= invHeight(k) - h) THEN findEmptySpaceByColumnFrom(s, k, w, h, x + 1, 0)
  ELSE IF isAreaEmpty(s, k, x, y, w, h) THEN <<x, y>>
  ELSE findEmptySpaceByColumnFrom(s, k, w, h, x, y + 1)

findEmptySpaceByColumn(s, k, w, h) == findEmptySpaceByColumnFrom(s, k, w, h, 0, 0)

findEmptySpace(s, k, w, h) == findEmptySpaceFrom(s, k, w, h, 0, 0)

(* The stack loop of addItem from the n-th tracked item on; done: it returned true. *)
RECURSIVE addToStacks(_, _, _, _)
addToStacks(s, k, item, n) ==
  IF n > Len(s.items[k]) THEN [s |-> s, done |-> FALSE]
  ELSE
    LET existingItem == s.items[k][n]
    IN  IF canStackWith(existingItem, item) /\ canAddMore(s, existingItem)
        THEN LET a == addQuantity(s, existingItem, s.quantity[item])
                 r == removeQuantity(a.s, item, a.ret)
             IN  IF r.s.quantity[item] = 0
                 THEN [s |-> Emit(r.s, <<inventory(k), "changed">>), done |-> TRUE]
                 ELSE addToStacks(r.s, k, item, n + 1)
        ELSE addToStacks(s, k, item, n + 1)

addItem(s, k, item) ==
  LET m == IF isStackable(item) THEN addToStacks(s, k, item, 1)
           ELSE [s |-> s, done |-> FALSE]
  IN  IF m.done THEN Result(m.s, TRUE)
      ELSE IF m.s.quantity[item] > 0
           THEN LET pos == findEmptySpace(m.s, k, width(item), height(item))
                IN  IF pos # <<>> THEN placeAt(m.s, k, item, pos[1], pos[2])
                    ELSE Result(m.s, FALSE)
           ELSE Result(m.s, TRUE)

(* removeItem that notifies 'changed' before 'itemRemoved'. *)
removeItemChangedFirst(s, k, item) ==
  IF ~Has(s.items[k], item) THEN Result(s, FALSE)
  ELSE
    LET s1 == clearItemFromGrid(s, k, item)
        s2 == [s1 EXCEPT !.items[k] = Delete(@, item),
                         !.gridX[item] = -1, !.gridY[item] = -1]
        s3 == Emit(s2, <<inventory(k), "changed">>)
    IN  Result(Emit(s3, <<inventory(k), "itemRemoved", item>>), TRUE)

(* removeItem that leaves the stored position as it was. *)
removeItemKeepingPosition(s, k, item) ==
  IF ~Has(s.items[k], item) THEN Result(s, FALSE)
  ELSE
    LET s1 == clearItemFromGrid(s, k, item)
        s2 == [s1 EXCEPT !.items[k] = Delete(@, item)]
        s3 == Emit(s2, <<inventory(k), "itemRemoved", item>>)
    IN  Result(Emit(s3, <<inventory(k), "changed">>), TRUE)

removeItem(s, k, item) ==
  IF ~Has(s.items[k], item) THEN Result(s, FALSE)
  ELSE
    LET s1 == clearItemFromGrid(s, k, item)
        s2 == [s1 EXCEPT !.items[k] = Delete(@, item),
                         !.gridX[item] = -1, !.gridY[item] = -1]
        s3 == Emit(s2, <<inventory(k), "itemRemoved", item>>)
    IN  Result(Emit(s3, <<inventory(k), "changed">>), TRUE)

getItemAt(s, k, x, y) ==
  IF x < 0 \/ y < 0 \/ x >= invWidth(k) \/ y >= invHeight(k) THEN Null
  ELSE s.grid[k][y][x]

RECURSIVE clearFrom(_, _, _, _)
clearFrom(s, k, itemsToRemove, n) ==
  IF n > Len(itemsToRemove) THEN s
  ELSE clearFrom(removeItem(s, k, itemsToRemove[n]).s, k, itemsToRemove, n + 1)

(* clear as a bulk reset: everything emptied at once, one notification. *)
clearInBulk(s, k) ==
  LET s1 == [s EXCEPT !.grid[k] = EmptyGrid(k),
                      !.items[k] = <<>>,
                      !.gridX = [i \in Items |-> IF Has(s.items[k], i) THEN -1 ELSE @[i]],
                      !.gridY = [i \in Items |-> IF Has(s.items[k], i) THEN -1 ELSE @[i]]]
  IN  Result(Emit(s1, <<inventory(k), "changed">>), Null)

clear(s, k) == Result(clearFrom(s, k, s.items[k], 1), Null)

(* transferTo that takes the item out of the source before it asks the *)
(* target: what the ordering property rules out.                       *)
transferToRemovingFirst(s, k, item, targetInventory, xy) ==
  IF ~Has(s.items[k], item) THEN [s |-> s, ret |-> FALSE, mid |-> s]
  ELSE
    LET s1 == clearItemFromGrid(s, k, item)
        s2 == [s1 EXCEPT !.items[k] = Delete(@, item)]
        t == IF Len(xy) < 2
             THEN addItem(s2, targetInventory, item)
             ELSE placeAt(s2, targetInventory, item, xy[1], xy[2])
    IN  IF ~t.ret
        THEN [s |-> placeAt(t.s, k, item, s.gridX[item], s.gridY[item]).s,
              ret |-> FALSE, mid |-> t.s]
        ELSE [s |-> t.s, ret |-> TRUE, mid |-> t.s]

(* xy: the optional arguments x and y as passed, <<>>, <<x>> or <<x, y>>.  *)
(* mid is the world at the point where the target has answered.            *)
transferTo(s, k, item, targetInventory, xy) ==
  IF ~Has(s.items[k], item) THEN [s |-> s, ret |-> FALSE, mid |-> s]
  ELSE
    LET t == IF Len(xy) < 2
             THEN addItem(s, targetInventory, item)
             ELSE placeAt(s, targetInventory, item, xy[1], xy[2])
    IN  IF ~t.ret THEN [s |-> t.s, ret |-> FALSE, mid |-> t.s]
        ELSE
          LET s1 == clearItemFromGrid(t.s, k, item)
              s2 == [s1 EXCEPT !.items[k] = Delete(@, item)]
              s3 == Emit(s2, <<inventory(k), "itemRemoved", item>>)
          IN  [s |-> Emit(s3, <<inventory(k), "changed">>), ret |-> TRUE, mid |-> t.s]

(***************************************************************************)
(* Equipment (src/src/inventory/Equipment.ts)                              *)
(***************************************************************************)
(* canEquipAt that asks for a tag but not for one the slot accepts. *)
canEquipAtAnyTag(s, item, slotId) ==
  IF slotId \notin SlotSet THEN FALSE
  ELSE equipSlot(item) # NoTag

(* canEquipAt that also wants the slot to be free. *)
canEquipAtIfFree(s, item, slotId) ==
  IF slotId \notin SlotSet THEN FALSE
  ELSE IF equipSlot(item) = NoTag THEN FALSE
  ELSE equipSlot(item) \in s.slots[slotId] /\ s.equipped[slotId] = Null

canEquipAt(s, item, slotId) ==
  IF slotId \notin SlotSet THEN FALSE
  ELSE IF equipSlot(item) = NoTag THEN FALSE
  ELSE equipSlot(item) \in s.slots[slotId]

(* this.equipped.get(slotId) ?? null *)
getEquipped(s, slotId) == IF slotId \in SlotSet THEN s.equipped[slotId] ELSE Null

(* equip that announces the new item before the displaced one. *)
equipAnnouncingFirst(s, item, slotId) ==
  IF ~canEquipAt(s, item, slotId) THEN Result(s, Null)
  ELSE
    LET previousItem == getEquipped(s, slotId)
        s1 == [s EXCEPT !.equipped[slotId] = item]
        s2 == Emit(s1, <<equipment, "equipped", slotId, item>>)
        s3 == IF previousItem # Null
              THEN Emit(s2, <<equipment, "unequipped", slotId, previousItem>>)
              ELSE s2
    IN  Result(Emit(s3, <<equipment, "changed">>), previousItem)

(* equip that refuses a slot already occupied. *)
equipIfFree(s, item, slotId) ==
  IF ~canEquipAt(s, item, slotId) \/ getEquipped(s, slotId) # Null THEN Result(s, Null)
  ELSE
    LET s1 == [s EXCEPT !.equipped[slotId] = item]
        s3 == Emit(s1, <<equipment, "equipped", slotId, item>>)
    IN  Result(Emit(s3, <<equipment, "changed">>), Null)

equip(s, item, slotId) ==
  IF ~canEquipAt(s, item, slotId) THEN Result(s, Null)
  ELSE
    LET previousItem == getEquipped(s, slotId)
        s1 == [s EXCEPT !.equipped[slotId] = item]
        s2 == IF previousItem # Null
              THEN Emit(s1, <<equipment, "unequipped", slotId, previousItem>>)
              ELSE s1
        s3 == Emit(s2, <<equipment, "equipped", slotId, item>>)
    IN  Result(Emit(s3, <<equipment, "changed">>), previousItem)

(* unequip that forgets the closing 'changed'. *)
unequipWithoutChanged(s, slotId) ==
  LET item == getEquipped(s, slotId)
  IN  IF item = Null THEN Result(s, Null)
      ELSE
        LET s1 == [s EXCEPT !.equipped[slotId] = Null]
        IN  Result(Emit(s1, <<equipment, "unequipped", slotId, item>>), item)

unequip(s, slotId) ==
  LET item == getEquipped(s, slotId)
  IN  IF item = Null THEN Result(s, Null)
      ELSE
        LET s1 == [s EXCEPT !.equipped[slotId] = Null]
            s2 == Emit(s1, <<equipment, "unequipped", slotId, item>>)
        IN  Result(Emit(s2, <<equipment, "changed">>), item)

findCompatibleSlots(s, item) ==
  SelectSeq(SlotIds, LAMBDA slotId :
    equipSlot(item) # NoTag /\ equipSlot(item) \in s.slots[slotId])

isEquipped(s, item) == \E n \in 1..Len(SlotIds) : s.equipped[SlotIds[n]] = item

findSlotOf(s, item) ==
  IF \E n \in 1..Len(SlotIds) : s.equipped[SlotIds[n]] = item
  THEN SlotIds[CHOOSE n \in 1..Len(SlotIds) :
                 /\ s.equipped[SlotIds[n]] = item
                 /\ \A m \in 1..(n - 1) : s.equipped[SlotIds[m]] # item]
  ELSE Null

(* addSlot that leaves the slot's item where it is. *)
addSlotKeepingItem(s, slotId, types) ==
  Result([s EXCEPT !.slots[slotId] = types], Null)

(* addSlot with the id of a registered slot: Map.set keeps the slot's place *)
(* in the order, replaces its config and empties it.                       *)
addSlot(s, slotId, types) ==
  Result([s EXCEPT !.slots[slotId] = types, !.equipped[slotId] = Null], Null)

(* The worn items in slot order, nulls left out. *)
getEquippedItems(s) ==
  LET worn == SelectSeq(SlotIds, LAMBDA slotId : s.equipped[slotId] # Null)
  IN  [n \in 1..Len(worn) |-> s.equipped[worn[n]]]

(* The loop of unequipAll from the n-th slot on; got: the items so far. *)
RECURSIVE unequipAllFrom(_, _, _)
unequipAllFrom(s, n, got) ==
  IF n > Len(SlotIds) THEN Result(s, got)
  ELSE LET u == unequip(s, SlotIds[n])
       IN  unequipAllFrom(u.s, n + 1, IF u.ret # Null THEN Append(got, u.ret) ELSE got)

unequipAll(s) == unequipAllFrom(s, 1, <<>>)

(***************************************************************************)
(* InventoryComponent (src/src/inventory/InventoryComponent.ts), built     *)
(* with an inventory config and a list of equipment slots, so that         *)
(* this.equipment is not null.                                             *)
(***************************************************************************)
Own == 1    \* this.inventory

componentAddItem(s, item) == addItem(s, Own, item)

componentRemoveItem(s, item) ==
  LET s1 == IF isEquipped(s, item)
            THEN LET slot == findSlotOf(s, item)
                 IN  IF slot # Null THEN unequip(s, slot).s ELSE s
            ELSE s
  IN  removeItem(s1, Own, item)

(* equipItem that re-homes the displaced item while the item being equipped *)
(* still holds its cells, and takes it out of the grid afterwards.          *)
equipItemKeepingCells(s, item, slotId) ==
  LET compatible == findCompatibleSlots(s, item)
      targetSlot == IF slotId # <<>> THEN slotId[1]
                    ELSE IF compatible # <<>> THEN compatible[1] ELSE ""
  IN  IF targetSlot = "" THEN Result(s, FALSE)
      ELSE IF ~canEquipAt(s, item, targetSlot) THEN Result(s, FALSE)
      ELSE
        LET e == equip(s, item, targetSlot)
            previousItem == e.ret
        IN  IF previousItem # Null
            THEN LET a == addItem(e.s, Own, previousItem)
                 IN  IF ~a.ret
                     THEN Result(equip(a.s, previousItem, targetSlot).s, FALSE)
                     ELSE Result(removeItem(a.s, Own, item).s, TRUE)
            ELSE Result(removeItem(e.s, Own, item).s, TRUE)

(* slotId: the optional argument as passed, <<>> or <<id>>. *)
equipItem(s, item, slotId) ==
  LET compatible == findCompatibleSlots(s, item)
      targetSlot == IF slotId # <<>> THEN slotId[1]
                    ELSE IF compatible # <<>> THEN compatible[1] ELSE ""
  IN  IF targetSlot = "" THEN Result(s, FALSE)
      ELSE IF ~canEquipAt(s, item, targetSlot) THEN Result(s, FALSE)
      ELSE
        LET removed == removeItem(s, Own, item)
            wasInInventory == removed.ret
            e == equip(removed.s, item, targetSlot)
            previousItem == e.ret
        IN  IF previousItem # Null
            THEN LET a == addItem(e.s, Own, previousItem)
                 IN  IF ~a.ret
                     THEN LET back == equip(a.s, previousItem, targetSlot)
                          IN  IF wasInInventory
                              THEN Result(addItem(back.s, Own, item).s, FALSE)
                              ELSE Result(back.s, FALSE)
                     ELSE Result(a.s, TRUE)
            ELSE Result(e.s, TRUE)

(* unequipItem that empties the slot before it looks for room. *)
unequipItemBeforeLooking(s, slotId) ==
  LET item == getEquipped(s, slotId)
  IN  IF item = Null THEN Result(s, FALSE)
      ELSE
        LET u == unequip(s, slotId)
            pos == findEmptySpace(u.s, Own, width(item), height(item))
        IN  IF pos = <<>> THEN Result(u.s, FALSE)
            ELSE Result(placeAt(u.s, Own, item, pos[1], pos[2]).s, TRUE)

unequipItem(s, slotId) ==
  LET item == getEquipped(s, slotId)
  IN  IF item = Null THEN Result(s, FALSE)
      ELSE
        LET pos == findEmptySpace(s, Own, width(item), height(item))
        IN  IF pos = <<>> THEN Result(s, FALSE)
            ELSE LET u == unequip(s, slotId)
                 IN  Result(placeAt(u.s, Own, item, pos[1], pos[2]).s, TRUE)

(***************************************************************************)
(* InventoryScreen (src/unnamed/part_005): the click handlers and the drag *)
(* state.  The item argument is what the UI read at the clicked slot.      *)
(***************************************************************************)
clearDrag(s) ==
  [s EXCEPT !.draggedItem = Null, !.draggedFromInventory = FALSE,
            !.draggedFromSlot = Null, !.draggedFromPos = <<>>]

startDrag(s, item, fromInventory, fromSlot, fromPos) ==
  [s EXCEPT !.draggedItem = item, !.draggedFromInventory = fromInventory,
            !.draggedFromSlot = fromSlot, !.draggedFromPos = fromPos]

handleInventorySlotClick(s, x, y, item) ==
  IF s.draggedItem # Null
  THEN LET s1 == IF s.draggedFromInventory /\ s.draggedFromPos # <<>>
                 THEN placeAt(s, Own, s.draggedItem, x, y).s
                 ELSE IF s.draggedFromSlot # Null
                 THEN IF canPlaceAt(s, Own, s.draggedItem, x, y)
                      THEN placeAt(unequip(s, s.draggedFromSlot).s, Own, s.draggedItem, x, y).s
                      ELSE s
                 ELSE s
       IN  Result(clearDrag(s1), Null)
  ELSE IF item # Null
  THEN Result(startDrag(s, item, TRUE, Null, <<x, y>>), Null)
  ELSE Result(s, Null)

handleInventorySlotRightClick(s, x, y, item) ==
  IF item # Null /\ equipSlot(item) # NoTag
  THEN Result(equipItem(s, item, <<>>).s, Null)
  ELSE Result(s, Null)

handleEquipSlotClick(s, slotId, item) ==
  IF s.draggedItem # Null
  THEN LET s1 ==
             IF s.draggedFromInventory /\ s.draggedFromPos # <<>>
             THEN IF canEquipAt(s, s.draggedItem, slotId)
                  THEN LET removed == removeItem(s, Own, s.draggedItem).s
                           e == equip(removed, s.draggedItem, slotId)
                           swappedItem == e.ret
                       IN  IF swappedItem # Null
                           THEN addItem(e.s, Own, swappedItem).s
                           ELSE e.s
                  ELSE s
             ELSE IF s.draggedFromSlot # Null /\ s.draggedFromSlot # slotId
             THEN IF canEquipAt(s, s.draggedItem, slotId)
                  THEN LET u == unequip(s, s.draggedFromSlot).s
                           e == equip(u, s.draggedItem, slotId)
                           swappedItem == e.ret
                       IN  IF swappedItem # Null
                           THEN equip(e.s, swappedItem, s.draggedFromSlot).s
                           ELSE e.s
                  ELSE s
             ELSE s
       IN  Result(clearDrag(s1), Null)
  ELSE IF item # Null
  THEN Result(startDrag(s, item, FALSE, slotId, <<>>), Null)
  ELSE Result(s, Null)

handleEquipSlotRightClick(s, slotId, item) ==
  IF item # Null THEN Result(unequipItem(s, slotId).s, Null)
  ELSE Result(s, Null)

(***************************************************************************)
(* StateMachine (src/src/inventory/Item.ts).  The methods are operators    *)
(* from a machine record to [s |-> machine after, ret |-> return value];   *)
(* ev logs, in order, the callbacks run and the events emitted.            *)
(***************************************************************************)
StateNames == {"idle", "walk", "attack"}
After(name) == CASE name = "idle" -> "walk" [] name = "walk" -> "attack" [] name = "attack" -> "idle"
Before(name) == CASE name = "idle" -> "attack" [] name = "walk" -> "idle" [] name = "attack" -> "walk"

(* The keys of the context; a condition reads one key. *)
ContextKeys == {"moving", "enemy"}

(* TransitionCondition; priority is <<>> when undefined. *)
TransitionCondition(to, key, priority) == [to |-> to, condition |-> key, priority |-> priority]
condition(tc, ctx) == tc.condition \in ctx
priorityOf(tc) == IF tc.priority = <<>> THEN 0 ELSE tc.priority[1]

(* StateConfig: a hook is TRUE when the callback is defined. *)
FullConfig(name) ==
  [name |-> name, onEnter |-> TRUE, onExit |-> TRUE, onUpdate |-> TRUE,
   transitions |-> <<TransitionCondition(After(name), "moving", <<0>>),
                     TransitionCondition(Before(name), "enemy", <<1>>)>>]
BareConfig(name) ==
  [name |-> name, onEnter |-> FALSE, onExit |-> FALSE, onUpdate |-> FALSE,
   transitions |-> <<TransitionCondition(name, "enemy", <<>>),
                     TransitionCondition(After(name), "moving", <<>>)>>]
StateConfigs == {FullConfig(name) : name \in StateNames} \cup {BareConfig(name) : name \in StateNames}

GlobalTransitionChoices ==
  { TransitionCondition("attack", "enemy", <<1>>),
    TransitionCondition("idle", "enemy", <<>>),
    TransitionCondition("walk", "moving", <<1>>),
    TransitionCondition("idle", "moving", <<0>>) }

Machine == [states |-> states, currentState |-> currentState,
            previousState |-> previousState,
            globalTransitions |-> globalTransitions, context |-> context,
            ev |-> <<>>]

machine == "machine"
callback == "callback"

(* states.has(name), states.get(name): states[name] is <<>> or <<InternalState>>. *)
hasState(m, name) == m.states[name] # <<>>
getState(m, name) == m.states[name][1]

addState(m, stateConfig) ==
  Result([m EXCEPT !.states[stateConfig.name] =
            <<[config |-> stateConfig, transitions |-> stateConfig.transitions]>>], Null)

removeState(m, name) ==
  IF m.currentState = name THEN Result(m, FALSE)
  ELSE Result([m EXCEPT !.states[name] = <<>>], hasState(m, name))

(* transition that moves to a name that is not registered. *)
transitionUnchecked(m, to, force) ==
  LET from == m.currentState
      m2 == [m EXCEPT !.previousState = from, !.currentState = to]
  IN  Result(Emit(m2, <<machine, "stateEnter", to, from>>), TRUE)

transition(m, to, force) ==
  IF ~hasState(m, to) THEN Result(m, FALSE)
  ELSE
    LET from == m.currentState
        exits == from # Null /\ hasState(m, from) /\ getState(m, from).config.onExit
        m1 == IF exits
              THEN Emit(Emit(m, <<callback, "onExit", from, to>>),
                        <<machine, "stateExit", from, to>>)
              ELSE m
        m2 == [m1 EXCEPT !.previousState = from, !.currentState = to]
        m3 == IF getState(m, to).config.onEnter
              THEN Emit(m2, <<callback, "onEnter", to, from>>)
              ELSE m2
    IN  Result(Emit(m3, <<machine, "stateEnter", to, from>>), TRUE)

(* StateMachine.set *)
setContext(m, key, value) ==
  Result([m EXCEPT !.context = IF value THEN @ \cup {key} ELSE @ \ {key}], Null)

(* findTransition: <<>> for null, or <<transition>>. *)
RECURSIVE findTransitionFrom(_, _, _)
findTransitionFrom(m, transitions, n) ==
  IF n > Len(transitions) THEN <<>>
  ELSE IF condition(transitions[n], m.context) THEN <<transitions[n]>>
  ELSE findTransitionFrom(m, transitions, n + 1)

findTransition(m, transitions) == findTransitionFrom(m, transitions, 1)

(* update that keeps running onUpdate after a transition fired. *)
updateAlways(m, deltaTime) ==
  IF m.currentState = Null THEN Result(m, Null)
  ELSE IF ~hasState(m, m.currentState) THEN Result(m, Null)
  ELSE
    LET currentStateData == getState(m, m.currentState)
        globalTransition == findTransition(m, m.globalTransitions)
        stateTransition == findTransition(m, currentStateData.transitions)
        m1 == IF globalTransition # <<>> /\ globalTransition[1].to # m.currentState
              THEN transition(m, globalTransition[1].to, FALSE).s
              ELSE IF stateTransition # <<>>
              THEN transition(m, stateTransition[1].to, FALSE).s
              ELSE m
        m2 == IF currentStateData.config.onUpdate
              THEN Emit(m1, <<callback, "onUpdate", m.currentState, deltaTime>>)
              ELSE m1
    IN  Result(Emit(m2, <<machine, "stateUpdate", m.currentState, deltaTime>>), Null)

(* update that looks at the state's own transitions before the global ones. *)
updateStateFirst(m, deltaTime) ==
  IF m.currentState = Null THEN Result(m, Null)
  ELSE IF ~hasState(m, m.currentState) THEN Result(m, Null)
  ELSE
    LET currentStateData == getState(m, m.currentState)
        globalTransition == findTransition(m, m.globalTransitions)
        stateTransition == findTransition(m, currentStateData.transitions)
    IN  IF stateTransition # <<>>
        THEN Result(transition(m, stateTransition[1].to, FALSE).s, Null)
        ELSE IF globalTransition # <<>> /\ globalTransition[1].to # m.currentState
        THEN Result(transition(m, globalTransition[1].to, FALSE).s, Null)
        ELSE
          LET m1 == IF currentStateData.config.onUpdate
                    THEN Emit(m, <<callback, "onUpdate", m.currentState, deltaTime>>)
                    ELSE m
          IN  Result(Emit(m1, <<machine, "stateUpdate", m.currentState, deltaTime>>), Null)

update(m, deltaTime) ==
  IF m.currentState = Null THEN Result(m, Null)
  ELSE IF ~hasState(m, m.currentState) THEN Result(m, Null)
  ELSE
    LET currentStateData == getState(m, m.currentState)
        globalTransition == findTransition(m, m.globalTransitions)
        stateTransition == findTransition(m, currentStateData.transitions)
    IN  IF globalTransition # <<>> /\ globalTransition[1].to # m.currentState
        THEN Result(transition(m, globalTransition[1].to, FALSE).s, Null)
        ELSE IF stateTransition # <<>>
        THEN Result(transition(m, stateTransition[1].to, FALSE).s, Null)
        ELSE
          LET m1 == IF currentStateData.config.onUpdate
                    THEN Emit(m, <<callback, "onUpdate", m.currentState, deltaTime>>)
                    ELSE m
          IN  Result(Emit(m1, <<machine, "stateUpdate", m.currentState, deltaTime>>), Null)

(* Array.prototype.sort with (a, b) => (b.priority ?? 0) - (a.priority ?? 0): *)
(* a stable sort, highest priority first.                                     *)
RECURSIVE insertSorted(_, _)
insertSorted(sorted, tc) ==
  IF sorted = <<>> THEN <<tc>>
  ELSE IF priorityOf(Head(sorted)) >= priorityOf(tc)
  THEN <<Head(sorted)>> \o insertSorted(Tail(sorted), tc)
  ELSE <<tc>> \o sorted

RECURSIVE sort(_)
sort(transitions) ==
  IF transitions = <<>> THEN <<>>
  ELSE insertSorted(sort(SubSeq(transitions, 1, Len(transitions) - 1)),
                    transitions[Len(transitions)])

addGlobalTransition(m, tc) ==
  Result([m EXCEPT !.globalTransitions = sort(Append(@, tc))], Null)

RECURSIVE findIndexFrom(_, _, _)
findIndexFrom(transitions, to, n) ==
  IF n > Len(transitions) THEN -1
  ELSE IF transitions[n].to = to THEN n
  ELSE findIndexFrom(transitions, to, n + 1)

removeGlobalTransition(m, to) ==
  LET index == findIndexFrom(m.globalTransitions, to, 1)
  IN  IF index # -1
      THEN Result([m EXCEPT !.globalTransitions =
                     SubSeq(@, 1, index - 1) \o SubSeq(@, index + 1, Len(@))], TRUE)
      ELSE Result(m, FALSE)

reset(m) == Result([m EXCEPT !.currentState = Null, !.previousState = Null], Null)

(* new StateMachine(): no state, no transition, an empty context. *)
InitMachine ==
  /\ states = [name \in StateNames |-> <<>>]
  /\ currentState = Null
  /\ previousState = Null
  /\ globalTransitions = <<>>
  /\ context = {}

(* InventoryScreen after construction: nothing is dragged. *)
InitDrag ==
  /\ draggedItem = Null
  /\ draggedFromInventory = FALSE
  /\ draggedFromSlot = Null
  /\ draggedFromPos = <<>>

(***************************************************************************)
(* Actions                                                                 *)
(***************************************************************************)
(* Every inventory and slot is empty; each item was created with the       *)
(* default quantity 1, potion2 with 1 or with a full stack.                *)
Init ==
  /\ grid = [k \in Inventories |-> EmptyGrid(k)]
  /\ items = [k \in Inventories |-> <<>>]
  /\ \E requested \in {1, MaxStack} :
       quantity = [i \in Items |->
                     IF i = "potion2" THEN NewQuantity(i, requested) ELSE NewQuantity(i, 1)]
  /\ gridX = [i \in Items |-> -1]
  /\ gridY = [i \in Items |-> -1]
  /\ equipped = [slotId \in SlotSet |-> Null]
  /\ slots = [slotId \in SlotSet |-> acceptedTypes(slotId)]
  /\ InitMachine
  /\ InitDrag

(* Coordinates a caller passes: every cell, and one step outside on each side. *)
CoordsX == (-1)..GridW
CoordsY == (-1)..invHeight(1)
(* The optional x and y of transferTo: none, x alone, or both. *)
OptionalXY == {<<>>, <<0>>} \cup ((0..GridW) \X (0..invHeight(1)))

PlaceAt(invs, its) ==
  \E k \in invs, item \in its, x \in CoordsX, y \in CoordsY :
    LET r == placeAt(World, k, item, x, y)
    IN  /\ grid' = r.s.grid
        /\ items' = r.s.items
        /\ quantity' = r.s.quantity
        /\ gridX' = r.s.gridX
        /\ gridY' = r.s.gridY
        /\ equipped' = r.s.equipped
        /\ slots' = r.s.slots
        /\ UNCHANGED <<machineVars, dragVars>>

AddItem(invs, its) ==
  \E k \in invs, item \in its :
    LET r == addItem(World, k, item)
    IN  /\ grid' = r.s.grid
        /\ items' = r.s.items
        /\ quantity' = r.s.quantity
        /\ gridX' = r.s.gridX
        /\ gridY' = r.s.gridY
        /\ equipped' = r.s.equipped
        /\ slots' = r.s.slots
        /\ UNCHANGED <<machineVars, dragVars>>

RemoveItem(invs, its) ==
  \E k \in invs, item \in its :
    LET r == removeItem(World, k, item)
    IN  /\ grid' = r.s.grid
        /\ items' = r.s.items
        /\ quantity' = r.s.quantity
        /\ gridX' = r.s.gridX
        /\ gridY' = r.s.gridY
        /\ equipped' = r.s.equipped
        /\ slots' = r.s.slots
        /\ UNCHANGED <<machineVars, dragVars>>

Clear(invs) ==
  \E k \in invs :
    LET r == clear(World, k)
    IN  /\ grid' = r.s.grid
        /\ items' = r.s.items
        /\ quantity' = r.s.quantity
        /\ gridX' = r.s.gridX
        /\ gridY' = r.s.gridY
        /\ equipped' = r.s.equipped
        /\ slots' = r.s.slots
        /\ UNCHANGED <<machineVars, dragVars>>

TransferTo(invs, its) ==
  \E k \in invs, item \in its, t \in invs, xy \in OptionalXY :
    LET r == transferTo(World, k, item, t, xy)
    IN  /\ grid' = r.s.grid
        /\ items' = r.s.items
        /\ quantity' = r.s.quantity
        /\ gridX' = r.s.gridX
        /\ gridY' = r.s.gridY
        /\ equipped' = r.s.equipped
        /\ slots' = r.s.slots
        /\ UNCHANGED <<machineVars, dragVars>>

(* One inventory (and the zero-size one) under every Inventory method. *)
GridInventories == {1, 3}
Next ==
  \/ PlaceAt(GridInventories, InventoryItems)
  \/ AddItem(GridInventories, InventoryItems)
  \/ RemoveItem(GridInventories, InventoryItems)
  \/ Clear(GridInventories)
  \/ TransferTo(GridInventories, InventoryItems)

Spec == Init /\ [][Next]_vars

(* Items moving between inventories. *)
TransferItems == {"potion1", "potion2"}
NextTransfer ==
  \/ PlaceAt(Inventories, TransferItems)
  \/ AddItem(Inventories, TransferItems)
  \/ RemoveItem(Inventories, TransferItems)
  \/ Clear(Inventories)
  \/ TransferTo(Inventories, TransferItems)

SpecTransfer == Init /\ [][NextTransfer]_vars

(* The component under its own four methods. *)
SlotArguments == SlotSet \cup {"tail"}     \* "tail" is no slot of the equipment
OptionalSlot == {<<>>} \cup {<<slotId>> : slotId \in SlotArguments}

ComponentAddItem ==
  \E item \in ComponentItems :
    LET r == componentAddItem(World, item)
    IN  /\ grid' = r.s.grid
        /\ items' = r.s.items
        /\ quantity' = r.s.quantity
        /\ gridX' = r.s.gridX
        /\ gridY' = r.s.gridY
        /\ equipped' = r.s.equipped
        /\ slots' = r.s.slots
        /\ UNCHANGED <<machineVars, dragVars>>

ComponentRemoveItem ==
  \E item \in ComponentItems :
    LET r == componentRemoveItem(World, item)
    IN  /\ grid' = r.s.grid
        /\ items' = r.s.items
        /\ quantity' = r.s.quantity
        /\ gridX' = r.s.gridX
        /\ gridY' = r.s.gridY
        /\ equipped' = r.s.equipped
        /\ slots' = r.s.slots
        /\ UNCHANGED <<machineVars, dragVars>>

EquipItem ==
  \E item \in ComponentItems, slotId \in OptionalSlot :
    LET r == equipItem(World, item, slotId)
    IN  /\ grid' = r.s.grid
        /\ items' = r.s.items
        /\ quantity' = r.s.quantity
        /\ gridX' = r.s.gridX
        /\ gridY' = r.s.gridY
        /\ equipped' = r.s.equipped
        /\ slots' = r.s.slots
        /\ UNCHANGED <<machineVars, dragVars>>

UnequipItem ==
  \E slotId \in SlotArguments :
    LET r == unequipItem(World, slotId)
    IN  /\ grid' = r.s.grid
        /\ items' = r.s.items
        /\ quantity' = r.s.quantity
        /\ gridX' = r.s.gridX
        /\ gridY' = r.s.gridY
        /\ equipped' = r.s.equipped
        /\ slots' = r.s.slots
        /\ UNCHANGED <<machineVars, dragVars>>

NextComponent ==
  \/ ComponentAddItem
  \/ ComponentRemoveItem
  \/ EquipItem
  \/ UnequipItem

(* The component's items are all created with the default quantity. *)
InitComponent == Init /\ quantity = [i \in Items |-> NewQuantity(i, 1)]

SpecComponent == InitComponent /\ [][NextComponent]_vars

(* getAllItems: the inventory's items followed by the worn ones. *)
getAllItems(s) == s.items[Own] \o getEquippedItems(s)

(* The equipment alone under its own methods. *)
SlotTypes == {acceptedTypes(slotId) : slotId \in SlotSet}

Equip ==
  \E item \in Items, slotId \in SlotArguments :
    LET r == equip(World, item, slotId)
    IN  /\ grid' = r.s.grid
        /\ items' = r.s.items
        /\ quantity' = r.s.quantity
        /\ gridX' = r.s.gridX
        /\ gridY' = r.s.gridY
        /\ equipped' = r.s.equipped
        /\ slots' = r.s.slots
        /\ UNCHANGED <<machineVars, dragVars>>

Unequip ==
  \E slotId \in SlotArguments :
    LET r == unequip(World, slotId)
    IN  /\ grid' = r.s.grid
        /\ items' = r.s.items
        /\ quantity' = r.s.quantity
        /\ gridX' = r.s.gridX
        /\ gridY' = r.s.gridY
        /\ equipped' = r.s.equipped
        /\ slots' = r.s.slots
        /\ UNCHANGED <<machineVars, dragVars>>

UnequipAll ==
  LET r == unequipAll(World)
  IN  /\ grid' = r.s.grid
      /\ items' = r.s.items
      /\ quantity' = r.s.quantity
      /\ gridX' = r.s.gridX
      /\ gridY' = r.s.gridY
      /\ equipped' = r.s.equipped
      /\ slots' = r.s.slots
      /\ UNCHANGED <<machineVars, dragVars>>

AddSlot ==
  \E slotId \in SlotSet, types \in SlotTypes :
    LET r == addSlot(World, slotId, types)
    IN  /\ grid' = r.s.grid
        /\ items' = r.s.items
        /\ quantity' = r.s.quantity
        /\ gridX' = r.s.gridX
        /\ gridY' = r.s.gridY
        /\ equipped' = r.s.equipped
        /\ slots' = r.s.slots
        /\ UNCHANGED <<machineVars, dragVars>>

NextEquipment ==
  \/ Equip
  \/ Unequip
  \/ UnequipAll
  \/ AddSlot

SpecEquipment == InitComponent /\ [][NextEquipment]_vars

(* Items alone under their own methods, with any integer argument.  The *)
(* quantities are kept within QuantityCap of zero.                      *)
ItemInstances == {"potion1", "potion2", "sword"}
Amounts == (-(MaxStack + 1))..(MaxStack + 1)
QuantityCap == 2 * MaxStack
WithinCap(q) == \A i \in Items : q[i] \in (-QuantityCap)..QuantityCap

InitItem ==
  /\ grid = [k \in Inventories |-> EmptyGrid(k)]
  /\ items = [k \in Inventories |-> <<>>]
  /\ \E requested \in [ItemInstances -> Amounts] :
       quantity = [i \in Items |->
                     NewQuantity(i, IF i \in ItemInstances THEN requested[i] ELSE 1)]
  /\ gridX = [i \in Items |-> -1]
  /\ gridY = [i \in Items |-> -1]
  /\ equipped = [slotId \in SlotSet |-> Null]
  /\ slots = [slotId \in SlotSet |-> acceptedTypes(slotId)]
  /\ InitMachine
  /\ InitDrag

AddQuantity ==
  \E item \in ItemInstances, amount \in Amounts :
    LET r == addQuantity(World, item, amount)
    IN  /\ WithinCap(r.s.quantity)
        /\ quantity' = r.s.quantity
        /\ UNCHANGED <<grid, items, gridX, gridY, equipped, slots, machineVars, dragVars>>

RemoveQuantity ==
  \E item \in ItemInstances, amount \in Amounts :
    LET r == removeQuantity(World, item, amount)
    IN  /\ WithinCap(r.s.quantity)
        /\ quantity' = r.s.quantity
        /\ UNCHANGED <<grid, items, gridX, gridY, equipped, slots, machineVars, dragVars>>

(* The instance split returns takes the place of another instance of the *)
(* same config that nothing refers to.                                   *)
Split ==
  \E item \in ItemInstances, fresh \in ItemInstances, amount \in Amounts :
    LET r == split(World, item, amount)
    IN  /\ fresh # item /\ config(fresh) = config(item)
        /\ quantity' = IF r.ret = <<>> THEN r.s.quantity
                       ELSE [r.s.quantity EXCEPT ![fresh] = r.ret[1]]
        /\ UNCHANGED <<grid, items, gridX, gridY, equipped, slots, machineVars, dragVars>>

NextItem ==
  \/ AddQuantity
  \/ RemoveQuantity
  \/ Split

SpecItem == InitItem /\ [][NextItem]_vars

(* A state machine alone under its own methods. *)
DeltaTimes == {0, 16}
MaxGlobal == 2      \* most global transitions registered at once

AddState ==
  \E stateConfig \in StateConfigs :
    LET r == addState(Machine, stateConfig)
    IN  /\ states' = r.s.states
        /\ UNCHANGED <<currentState, previousState, globalTransitions, context>>
        /\ UNCHANGED <<grid, items, quantity, gridX, gridY, equipped, slots, dragVars>>

RemoveState ==
  \E name \in StateNames :
    LET r == removeState(Machine, name)
    IN  /\ states' = r.s.states
        /\ UNCHANGED <<currentState, previousState, globalTransitions, context>>
        /\ UNCHANGED <<grid, items, quantity, gridX, gridY, equipped, slots, dragVars>>

Transition ==
  \E to \in StateNames, force \in BOOLEAN :
    LET r == transition(Machine, to, force)
    IN  /\ currentState' = r.s.currentState
        /\ previousState' = r.s.previousState
        /\ UNCHANGED <<states, globalTransitions, context>>
        /\ UNCHANGED <<grid, items, quantity, gridX, gridY, equipped, slots, dragVars>>

SetContext ==
  \E key \in ContextKeys, value \in BOOLEAN :
    LET r == setContext(Machine, key, value)
    IN  /\ context' = r.s.context
        /\ UNCHANGED <<states, currentState, previousState, globalTransitions>>
        /\ UNCHANGED <<grid, items, quantity, gridX, gridY, equipped, slots, dragVars>>

Update ==
  \E deltaTime \in DeltaTimes :
    LET r == update(Machine, deltaTime)
    IN  /\ currentState' = r.s.currentState
        /\ previousState' = r.s.previousState
        /\ UNCHANGED <<states, globalTransitions, context>>
        /\ UNCHANGED <<grid, items, quantity, gridX, gridY, equipped, slots, dragVars>>

AddGlobalTransition ==
  \E tc \in GlobalTransitionChoices :
    LET r == addGlobalTransition(Machine, tc)
    IN  /\ Len(globalTransitions) < MaxGlobal
        /\ globalTransitions' = r.s.globalTransitions
        /\ UNCHANGED <<states, currentState, previousState, context>>
        /\ UNCHANGED <<grid, items, quantity, gridX, gridY, equipped, slots, dragVars>>

RemoveGlobalTransition ==
  \E to \in StateNames :
    LET r == removeGlobalTransition(Machine, to)
    IN  /\ globalTransitions' = r.s.globalTransitions
        /\ UNCHANGED <<states, currentState, previousState, context>>
        /\ UNCHANGED <<grid, items, quantity, gridX, gridY, equipped, slots, dragVars>>

Reset ==
  LET r == reset(Machine)
  IN  /\ currentState' = r.s.currentState
      /\ previousState' = r.s.previousState
      /\ UNCHANGED <<states, globalTransitions, context>>
      /\ UNCHANGED <<grid, items, quantity, gridX, gridY, equipped, slots, dragVars>>

NextMachine ==
  \/ AddState
  \/ RemoveState
  \/ Transition
  \/ SetContext
  \/ Update
  \/ AddGlobalTransition
  \/ RemoveGlobalTransition
  \/ Reset

SpecMachine == InitComponent /\ [][NextMachine]_vars

(* The inventory screen under its four click handlers; an item enters the *)
(* component through addItem, once.                                       *)
Holds(s, item) == Has(s.items[Own], item) \/ isEquipped(s, item)

PickUp ==
  \E item \in ComponentItems :
    \E r \in {componentAddItem(World, item)} :
        /\ ~Holds(World, item)
        /\ draggedItem # item
        /\ grid' = r.s.grid
        /\ items' = r.s.items
        /\ quantity' = r.s.quantity
        /\ gridX' = r.s.gridX
        /\ gridY' = r.s.gridY
        /\ equipped' = r.s.equipped
        /\ slots' = r.s.slots
        /\ UNCHANGED <<machineVars, dragVars>>

InventorySlotClick ==
  \E x \in 0..(invWidth(Own) - 1), y \in 0..(invHeight(Own) - 1) :
    \E r \in {handleInventorySlotClick(World, x, y, getItemAt(World, Own, x, y))} :
        /\ grid' = r.s.grid
        /\ items' = r.s.items
        /\ quantity' = r.s.quantity
        /\ gridX' = r.s.gridX
        /\ gridY' = r.s.gridY
        /\ equipped' = r.s.equipped
        /\ slots' = r.s.slots
        /\ draggedItem' = r.s.draggedItem
        /\ draggedFromInventory' = r.s.draggedFromInventory
        /\ draggedFromSlot' = r.s.draggedFromSlot
        /\ draggedFromPos' = r.s.draggedFromPos
        /\ UNCHANGED machineVars

InventorySlotRightClick ==
  \E x \in 0..(invWidth(Own) - 1), y \in 0..(invHeight(Own) - 1) :
    \E r \in {handleInventorySlotRightClick(World, x, y, getItemAt(World, Own, x, y))} :
        /\ grid' = r.s.grid
        /\ items' = r.s.items
        /\ quantity' = r.s.quantity
        /\ gridX' = r.s.gridX
        /\ gridY' = r.s.gridY
        /\ equipped' = r.s.equipped
        /\ slots' = r.s.slots
        /\ draggedItem' = r.s.draggedItem
        /\ draggedFromInventory' = r.s.draggedFromInventory
        /\ draggedFromSlot' = r.s.draggedFromSlot
        /\ draggedFromPos' = r.s.draggedFromPos
        /\ UNCHANGED machineVars

EquipSlotClick ==
  \E slotId \in SlotSet :
    \E r \in {handleEquipSlotClick(World, slotId, getEquipped(World, slotId))} :
        /\ grid' = r.s.grid
        /\ items' = r.s.items
        /\ quantity' = r.s.quantity
        /\ gridX' = r.s.gridX
        /\ gridY' = r.s.gridY
        /\ equipped' = r.s.equipped
        /\ slots' = r.s.slots
        /\ draggedItem' = r.s.draggedItem
        /\ draggedFromInventory' = r.s.draggedFromInventory
        /\ draggedFromSlot' = r.s.draggedFromSlot
        /\ draggedFromPos' = r.s.draggedFromPos
        /\ UNCHANGED machineVars

EquipSlotRightClick ==
  \E slotId \in SlotSet :
    \E r \in {handleEquipSlotRightClick(World, slotId, getEquipped(World, slotId))} :
        /\ grid' = r.s.grid
        /\ items' = r.s.items
        /\ quantity' = r.s.quantity
        /\ gridX' = r.s.gridX
        /\ gridY' = r.s.gridY
        /\ equipped' = r.s.equipped
        /\ slots' = r.s.slots
        /\ draggedItem' = r.s.draggedItem
        /\ draggedFromInventory' = r.s.draggedFromInventory
        /\ draggedFromSlot' = r.s.draggedFromSlot
        /\ draggedFromPos' = r.s.draggedFromPos
        /\ UNCHANGED machineVars

NextScreen ==
  \/ PickUp
  \/ InventorySlotClick
  \/ InventorySlotRightClick
  \/ EquipSlotClick
  \/ EquipSlotRightClick

SpecScreen == InitComponent /\ [][NextScreen]_vars

(***************************************************************************)
(* Vocabulary of the properties                                            *)
(***************************************************************************)
Range(seq) == {seq[n] : n \in 1..Len(seq)}
Cells(k) == (0..(invWidth(k) - 1)) \X (0..(invHeight(k) - 1))
Footprint(x, y, w, h) == (x..(x + w - 1)) \X (y..(y + h - 1))
(* The cells of inventory k that hold the item in world s. *)
Occupied(s, k, item) == {c \in Cells(k) : s.grid[k][c[2]][c[1]] = item}
Tracked(s, k, item) == item \in Range(s.items[k])
InGrid(s, k, item) == Occupied(s, k, item) # {}
Worn(s, item) == \E slotId \in SlotSet : s.equipped[slotId] = item

(* The inventory k holds the same items in the same cells, with the same *)
(* stored positions and quantities, in world a as in world b.            *)
SameInventory(a, b, k) ==
  /\ a.grid[k] = b.grid[k]
  /\ Range(a.items[k]) = Range(b.items[k])
  /\ \A item \in Range(b.items[k]) :
        /\ a.gridX[item] = b.gridX[item]
        /\ a.gridY[item] = b.gridY[item]
        /\ a.quantity[item] = b.quantity[item]

(***************************************************************************)
(* C1: whenever InventoryComponent.equipItem returns false, the inventory  *)
(* holds the same items in the same cells with the same stored positions   *)
(* and quantities as before the call, and every equipment slot holds the   *)
(* same item as before.                                                    *)
(***************************************************************************)
C1_EquipItemFalseChangesNothing ==
  \A item \in ComponentItems, slotId \in OptionalSlot :
    LET r == equipItem(World, item, slotId)
    IN  r.ret = FALSE =>
          /\ SameInventory(r.s, World, Own)
          /\ r.s.equipped = equipped

(***************************************************************************)
(* C2: after any sequence of addItem, removeItem, equipItem, unequipItem   *)
(* of the component, no item occupies a cell of the component's grid and   *)
(* an equipment slot at the same time.                                     *)
(***************************************************************************)
C2_NeverInGridAndWorn ==
  \A item \in Items : ~(InGrid(World, Own, item) /\ Worn(World, item))

(***************************************************************************)
(* C3: in every state reachable through placeAt, addItem, removeItem,      *)
(* clear and transferTo, the rectangles occupied by two distinct tracked   *)
(* items of an inventory never intersect: the cells each tracked item      *)
(* holds are a whole width x height rectangle, none of them claimed by     *)
(* another item.                                                           *)
(***************************************************************************)
IsRectangle(cells, w, h) ==
  \E x \in 0..GridW, y \in 0..invHeight(1) : cells = Footprint(x, y, w, h)

C3_FootprintsNeverOverlap ==
  \A k \in Inventories :
    \A a \in Range(items[k]), b \in Range(items[k]) :
      a # b =>
        /\ IsRectangle(Occupied(World, k, a), width(a), height(a))
        /\ IsRectangle(Occupied(World, k, b), width(b), height(b))
        /\ Occupied(World, k, a) \cap Occupied(World, k, b) = {}

(* Inventory 1 tracks two items side by side, and a placeAt of one onto a *)
(* cell of the other, inside the grid, is refused.                        *)
C3_Witness ==
  \E a \in Range(items[1]), b \in Range(items[1]) :
    /\ a # b
    /\ Occupied(World, 1, a) # {} /\ Occupied(World, 1, b) # {}
    /\ \E c \in Occupied(World, 1, b) :
         /\ Footprint(c[1], c[2], width(a), height(a)) \subseteq Cells(1)
         /\ placeAt(World, 1, a, c[1], c[2]).ret = FALSE

(***************************************************************************)
(* C4: in every reachable state of every inventory, also when items move   *)
(* between two inventories, each non-empty cell's occupant is in that      *)
(* inventory's tracked set, and each tracked item occupies exactly the     *)
(* width x height rectangle anchored at its stored (gridX, gridY).         *)
(***************************************************************************)
C4_CellsMatchStoredPositions ==
  \A k \in Inventories :
    /\ \A c \in Cells(k) :
         grid[k][c[2]][c[1]] # Null => Tracked(World, k, grid[k][c[2]][c[1]])
    /\ \A item \in Range(items[k]) :
         Occupied(World, k, item) =
           Footprint(gridX[item], gridY[item], width(item), height(item))

(***************************************************************************)
(* C5: whenever transferTo returns false because the target rejected the   *)
(* item, the source inventory is unchanged: same grid, same tracked set,   *)
(* and the item keeps its position and its quantity.                       *)
(***************************************************************************)
C5_RejectedTransferLeavesSource ==
  \A k \in Inventories, t \in Inventories, item \in TransferItems, xy \in OptionalXY :
    LET r == transferTo(World, k, item, t, xy)
    IN  (k # t /\ Tracked(World, k, item) /\ r.ret = FALSE) =>
          /\ r.s.grid[k] = grid[k]
          /\ r.s.items[k] = items[k]
          /\ r.s.gridX[item] = gridX[item]
          /\ r.s.gridY[item] = gridY[item]
          /\ r.s.quantity[item] = quantity[item]

(***************************************************************************)
(* C6 as stated: transferTo between two distinct inventories removes the   *)
(* item from the source only after the target accepted it; when it returns *)
(* true the item occupies no source cell and is not tracked by the source; *)
(* at no point of the call is the item absent from both inventories; the   *)
(* target's acceptance is target.placeAt(item, x, y) with explicit         *)
(* coordinates and target.addItem(item) without.                           *)
(***************************************************************************)
Acceptance(t, item, xy) ==
  IF Len(xy) = 2 THEN placeAt(World, t, item, xy[1], xy[2]) ELSE addItem(World, t, item)

TransferOrder(k, t, item, xy, r) ==
  /\ r.mid = Acceptance(t, item, xy).s
  /\ r.ret = Acceptance(t, item, xy).ret
  /\ Tracked(r.mid, k, item)
  /\ r.mid.grid[k] = grid[k]
  /\ r.ret = TRUE => ~Tracked(r.s, k, item) /\ Occupied(r.s, k, item) = {}
  /\ r.ret = FALSE => Tracked(r.s, k, item)

EmptyRegionExists(k, w, h) ==
  \E c \in Cells(k) :
    /\ Footprint(c[1], c[2], w, h) \subseteq Cells(k)
    /\ \A d \in Footprint(c[1], c[2], w, h) : grid[k][d[2]][d[1]] = Null

C7_AddItemFalseIffNoRoom ==
  \A k \in GridInventories, item \in InventoryItems :
    LET r == addItem(World, k, item)
    IN  /\ r.ret \in BOOLEAN
        /\ r.ret = FALSE <=>
              (r.s.quantity[item] > 0 /\ ~EmptyRegionExists(k, width(item), height(item)))

(* In inventory 1 one item is refused for lack of room, another is merged *)
(* away, a third is placed.                                               *)
C7_Witness ==
  /\ \E item \in InventoryItems :
       addItem(World, 1, item).ret = FALSE /\ ~Tracked(World, 1, item)
  /\ \E item \in InventoryItems :
       LET r == addItem(World, 1, item)
       IN  quantity[item] > 0 /\ r.ret = TRUE /\ r.s.quantity[item] = 0
  /\ items[1] # <<>>

(***************************************************************************)
(* C8: stack merging in addItem conserves quantity.  Over the whole call   *)
(* the sum of the quantities of the incoming item and of the tracked items *)
(* with its id is unchanged, and no quantity leaves 0..maxStack; where the *)
(* inventory tracks exactly one other stack B of the item's id with room   *)
(* (quantity b < maxStack m), the call leaves B at min(m, b + a) and the   *)
(* incoming item A (quantity a) at a - min(a, m - b).                      *)
(***************************************************************************)
RECURSIVE SumQuantity(_, _)
SumQuantity(s, set) ==
  IF set = {} THEN 0
  ELSE LET i == CHOOSE e \in set : TRUE
       IN  s.quantity[i] + SumQuantity(s, set \ {i})

SameIdStacks(k, item) == {i \in Range(items[k]) \cup {item} : id(i) = id(item)}
OpenStacks(k, item) ==
  {B \in Range(items[k]) \ {item} : canStackWith(B, item) /\ canAddMore(World, B)}

C8_StackMergeConserves ==
  \A k \in GridInventories, item \in InventoryItems :
    LET r == addItem(World, k, item)
        a == quantity[item]
    IN  /\ SumQuantity(r.s, SameIdStacks(k, item)) = SumQuantity(World, SameIdStacks(k, item))
        /\ \A i \in Items : r.s.quantity[i] \in 0..maxStack(i)
        /\ \A i \in Items \ SameIdStacks(k, item) : r.s.quantity[i] = quantity[i]
        /\ \A B \in OpenStacks(k, item) :
             (isStackable(item) /\ OpenStacks(k, item) = {B}) =>
               LET b == quantity[B]
                   m == maxStack(B)
               IN  /\ r.s.quantity[B] = Min(m, b + a)
                   /\ r.s.quantity[item] = a - Min(a, m - b)

(* Inventory 1 tracks a stack with room, and the incoming item is larger *)
(* than the room: the stack is filled and the rest is placed.            *)
C8_Witness ==
  \E item \in InventoryItems, B \in Range(items[1]) :
    LET r == addItem(World, 1, item)
    IN  /\ B # item /\ ~Tracked(World, 1, item)
        /\ OpenStacks(1, item) = {B}
        /\ quantity[B] > 0
        /\ quantity[item] > maxStack(B) - quantity[B]
        /\ r.s.quantity[B] = maxStack(B)
        /\ r.s.quantity[item] > 0 /\ Tracked(r.s, 1, item)

(***************************************************************************)
(* C9: when canPlaceAt(item, x, y) is false, placeAt(item, x, y) returns   *)
(* false, leaves the grid, the tracked set and the item's stored position  *)
(* (and everything else) unchanged, and emits no event.                    *)
(***************************************************************************)
C9_RefusedPlaceAtChangesNothing ==
  \A k \in GridInventories, item \in InventoryItems, x \in CoordsX, y \in CoordsY :
    ~canPlaceAt(World, k, item, x, y) =>
      LET r == placeAt(World, k, item, x, y)
      IN  /\ r.ret = FALSE
          /\ r.s.grid = grid /\ r.s.items = items
          /\ r.s.gridX = gridX /\ r.s.gridY = gridY
          /\ r.s.ev = <<>>
          /\ r.s = World

(* A tracked item is refused a move onto another item's cell, inside the grid. *)
C9_Witness ==
  \E item \in InventoryItems, other \in InventoryItems :
    /\ item # other /\ Tracked(World, 1, item) /\ Tracked(World, 1, other)
    /\ \E c \in Occupied(World, 1, other) :
         /\ Footprint(c[1], c[2], width(item), height(item)) \subseteq Cells(1)
         /\ ~canPlaceAt(World, 1, item, c[1], c[2])
         /\ placeAt(World, 1, item, c[1], c[2]).ret = FALSE

(***************************************************************************)
(* C10: canPlaceAt(item, x, y) is true if and only if the item's           *)
(* width x height footprint at (x, y) lies inside the grid and every       *)
(* covered cell is empty or holds this same item; it is false for every    *)
(* item and position on a grid of zero width or zero height.               *)
(***************************************************************************)
Fits(k, item, x, y) ==
  /\ Footprint(x, y, width(item), height(item)) \subseteq Cells(k)
  /\ \A c \in Footprint(x, y, width(item), height(item)) :
       grid[k][c[2]][c[1]] \in {Null, item}

C10_CanPlaceAtIffFits ==
  \A k \in GridInventories, item \in InventoryItems, x \in CoordsX, y \in CoordsY :
    /\ canPlaceAt(World, k, item, x, y) <=> Fits(k, item, x, y)
    /\ (invWidth(k) = 0 \/ invHeight(k) = 0) => ~canPlaceAt(World, k, item, x, y)

(* A tracked item may be placed again on its own cells, where another item *)
(* may not; and some other cell of the grid is free for that other item.   *)
C10_Witness ==
  \E item \in InventoryItems, other \in InventoryItems :
    /\ item # other /\ Tracked(World, 1, item)
    /\ canPlaceAt(World, 1, item, gridX[item], gridY[item])
    /\ ~canPlaceAt(World, 1, other, gridX[item], gridY[item])
    /\ \E c \in Cells(1) : canPlaceAt(World, 1, other, c[1], c[2])
    /\ ~canPlaceAt(World, 3, item, 0, 0)

(***************************************************************************)
(* C11: after a successful placeAt(item, x, y), getItemAt returns the item *)
(* for every cell of its footprint; after a removeItem(item) that follows, *)
(* getItemAt returns null for every one of those cells; getItemAt with     *)
(* coordinates outside the grid returns null.                              *)
(***************************************************************************)
C11_PlaceThenGetThenRemove ==
  \A k \in GridInventories, item \in InventoryItems, x \in CoordsX, y \in CoordsY :
    LET placed == placeAt(World, k, item, x, y)
        removed == removeItem(placed.s, k, item)
    IN  /\ placed.ret = TRUE =>
             /\ \A c \in Footprint(x, y, width(item), height(item)) :
                  /\ getItemAt(placed.s, k, c[1], c[2]) = item
                  /\ getItemAt(removed.s, k, c[1], c[2]) = Null
             /\ removed.ret = TRUE
        /\ (x < 0 \/ y < 0 \/ x >= invWidth(k) \/ y >= invHeight(k)) =>
             getItemAt(World, k, x, y) = Null

(* A two-cell item not yet tracked can be placed beside a tracked item. *)
C11_Witness ==
  \E item \in InventoryItems, x \in CoordsX, y \in CoordsY :
    /\ width(item) * height(item) > 1
    /\ ~Tracked(World, 1, item)
    /\ items[1] # <<>>
    /\ placeAt(World, 1, item, x, y).ret = TRUE

(***************************************************************************)
(* C12: a successful placeAt emits itemAdded{item, x, y} when the item was *)
(* not tracked before the call, or itemMoved{item, fromX, fromY, toX, toY} *)
(* with fromX, fromY the item's stored position before the call when it    *)
(* was tracked; in both cases changed follows at once and nothing else is  *)
(* emitted, so never both itemAdded and itemMoved.                         *)
(***************************************************************************)
C12_PlaceAtEvents ==
  \A k \in GridInventories, item \in InventoryItems, x \in CoordsX, y \in CoordsY :
    LET r == placeAt(World, k, item, x, y)
    IN  r.ret = TRUE =>
          r.s.ev = IF Tracked(World, k, item)
                   THEN << <<inventory(k), "itemMoved", item, gridX[item], gridY[item], x, y>>,
                           <<inventory(k), "changed">> >>
                   ELSE << <<inventory(k), "itemAdded", item, x, y>>,
                           <<inventory(k), "changed">> >>

(* A tracked item can be moved to another position, and an untracked one added. *)
C12_Witness ==
  /\ \E item \in InventoryItems, x \in CoordsX, y \in CoordsY :
       /\ Tracked(World, 1, item)
       /\ <<x, y>> # <<gridX[item], gridY[item]>>
       /\ placeAt(World, 1, item, x, y).ret = TRUE
  /\ \E item \in InventoryItems, x \in CoordsX, y \in CoordsY :
       ~Tracked(World, 1, item) /\ placeAt(World, 1, item, x, y).ret = TRUE

(***************************************************************************)
(* C13: placeAt of a tracked item at a position whose footprint covers     *)
(* only empty cells and the item's own cells succeeds as a move: the item  *)
(* then occupies exactly the new footprint, every cell of the old          *)
(* footprint outside the new one is empty, the stored position is (x, y),  *)
(* itemCount is unchanged and every other cell is as before.               *)
(***************************************************************************)
C13_PlaceAtMoves ==
  \A k \in GridInventories, item \in InventoryItems, x \in CoordsX, y \in CoordsY :
    LET r == placeAt(World, k, item, x, y)
        new == Footprint(x, y, width(item), height(item))
    IN  (/\ Tracked(World, k, item)
         /\ new \subseteq Cells(k)
         /\ \A c \in new : grid[k][c[2]][c[1]] \in {Null, item}) =>
          /\ r.ret = TRUE
          /\ Occupied(r.s, k, item) = new
          /\ \A c \in Occupied(World, k, item) \ new : r.s.grid[k][c[2]][c[1]] = Null
          /\ r.s.gridX[item] = x /\ r.s.gridY[item] = y
          /\ Len(r.s.items[k]) = Len(items[k])
          /\ \A c \in Cells(k) \ (new \cup Occupied(World, k, item)) :
               r.s.grid[k][c[2]][c[1]] = grid[k][c[2]][c[1]]

(* A tracked item can be placed again where it is, and moved to cells that *)
(* are empty, while another item is tracked beside it.                     *)
C13_Witness ==
  \E item \in InventoryItems :
    /\ Tracked(World, 1, item) /\ Len(items[1]) > 1
    /\ placeAt(World, 1, item, gridX[item], gridY[item]).ret = TRUE
    /\ \E x \in CoordsX, y \in CoordsY :
         /\ <<x, y>> # <<gridX[item], gridY[item]>>
         /\ placeAt(World, 1, item, x, y).ret = TRUE

(***************************************************************************)
(* C14: findEmptySpace(w, h) returns the first top-left coordinate in      *)
(* row-major order (smallest y, then smallest x) whose w x h region lies   *)
(* inside the grid and is entirely empty, or null when there is no such    *)
(* region; addItem places an item that was not fully merged at exactly     *)
(* that coordinate.                                                        *)
(***************************************************************************)
Sizes == 1..(GridW + 1)

EmptyRegionAt(k, x, y, w, h) ==
  /\ Footprint(x, y, w, h) \subseteq Cells(k)
  /\ \A c \in Footprint(x, y, w, h) : grid[k][c[2]][c[1]] = Null

C14_FindEmptySpaceRowMajor ==
  \A k \in GridInventories :
    /\ \A w \in Sizes, h \in Sizes :
         LET pos == findEmptySpace(World, k, w, h)
         IN  IF \E c \in Cells(k) : EmptyRegionAt(k, c[1], c[2], w, h)
             THEN /\ pos # <<>>
                  /\ EmptyRegionAt(k, pos[1], pos[2], w, h)
                  /\ \A c \in Cells(k) :
                       EmptyRegionAt(k, c[1], c[2], w, h) =>
                         pos[2] < c[2] \/ (pos[2] = c[2] /\ pos[1] <= c[1])
             ELSE pos = <<>>
    /\ \A item \in InventoryItems :
         LET r == addItem(World, k, item)
             pos == findEmptySpace(World, k, width(item), height(item))
         IN  (r.ret = TRUE /\ r.s.quantity[item] > 0) =>
               /\ pos # <<>>
               /\ r.s.gridX[item] = pos[1] /\ r.s.gridY[item] = pos[2]
               /\ Occupied(r.s, k, item) = Footprint(pos[1], pos[2], width(item), height(item))

(* The first cell of inventory 1 is taken and both (1,0) and (0,1) are    *)
(* free: the scan has to prefer the rest of row 0 to the start of row 1.  *)
C14_Witness ==
  /\ grid[1][0][0] # Null /\ grid[1][0][1] = Null /\ grid[1][1][0] = Null
  /\ findEmptySpace(World, 1, 1, 1) = <<1, 0>>
  /\ \E item \in InventoryItems :
       LET r == addItem(World, 1, item)
       IN  /\ ~Tracked(World, 1, item) /\ width(item) = 1
           /\ r.ret = TRUE /\ r.s.quantity[item] > 0 /\ r.s.gridX[item] = 1

(***************************************************************************)
(* C15: Inventory.removeItem(item) returns false and changes nothing when  *)
(* the item is not tracked; otherwise it empties every cell that holds the *)
(* item, removes it from the tracked set, resets its position to (-1, -1), *)
(* emits itemRemoved then changed, and returns true; all other items keep  *)
(* their cells, their places in the tracked set and their positions.       *)
(***************************************************************************)
C15_RemoveItem ==
  \A k \in GridInventories, item \in InventoryItems :
    LET r == removeItem(World, k, item)
    IN  IF ~Tracked(World, k, item)
        THEN r.ret = FALSE /\ r.s = World
        ELSE /\ r.ret = TRUE
             /\ Occupied(r.s, k, item) = {}
             /\ ~Tracked(r.s, k, item)
             /\ r.s.gridX[item] = -1 /\ r.s.gridY[item] = -1
             /\ r.s.ev = << <<inventory(k), "itemRemoved", item>>,
                            <<inventory(k), "changed">> >>
             /\ r.s.items[k] = Delete(items[k], item)
             /\ \A other \in Items \ {item} :
                  /\ Occupied(r.s, k, other) = Occupied(World, k, other)
                  /\ r.s.gridX[other] = gridX[other]
                  /\ r.s.gridY[other] = gridY[other]
             /\ r.s.quantity = quantity

(* Inventory 1 tracks a two-cell item and another item; a third is not tracked. *)
C15_Witness ==
  /\ \E item \in Range(items[1]) :
       /\ width(item) * height(item) > 1
       /\ removeItem(World, 1, item).ret = TRUE
       /\ Len(items[1]) > 1
  /\ \E item \in InventoryItems : removeItem(World, 1, item).ret = FALSE

(***************************************************************************)
(* C16: InventoryComponent.unequipItem(slotId) returns false and leaves    *)
(* every slot and the whole inventory unchanged (no event either) when the *)
(* slot is empty or unknown, or the inventory has no empty region of the   *)
(* worn item's footprint; otherwise it returns true, the slot is empty     *)
(* afterwards and the item sits in the grid at the position findEmptySpace *)
(* reported before any mutation.                                           *)
(***************************************************************************)
C16_UnequipItem ==
  \A slotId \in SlotArguments :
    LET r == unequipItem(World, slotId)
        item == IF slotId \in SlotSet THEN equipped[slotId] ELSE Null
    IN  IF item = Null \/ ~EmptyRegionExists(Own, width(item), height(item))
        THEN r.ret = FALSE /\ r.s = World
        ELSE LET pos == findEmptySpace(World, Own, width(item), height(item))
             IN  /\ r.ret = TRUE
                 /\ r.s.equipped[slotId] = Null
                 /\ \A other \in SlotSet \ {slotId} : r.s.equipped[other] = equipped[other]
                 /\ Tracked(r.s, Own, item)
                 /\ r.s.gridX[item] = pos[1] /\ r.s.gridY[item] = pos[2]
                 /\ Occupied(r.s, Own, item) =
                      Footprint(pos[1], pos[2], width(item), height(item))

(* One slot holds an item the full inventory has no room for, another *)
(* slot holds an item that fits.                                      *)
C16_Witness ==
  /\ \E slotId \in SlotSet :
       /\ equipped[slotId] # Null
       /\ grid[Own][0][0] # Null
       /\ unequipItem(World, slotId).ret = FALSE
  /\ \E slotId \in SlotSet :
       equipped[slotId] # Null /\ unequipItem(World, slotId).ret = TRUE

(***************************************************************************)
(* C17: InventoryComponent.equipItem(item) with the slot omitted targets   *)
(* the first slot, in registration order, whose accepted types contain the *)
(* item's equipSlot, and returns false when there is no such slot or when  *)
(* the item is not compatible with the slot given; when it returns true    *)
(* the item is in the target slot and no longer tracked by the inventory,  *)
(* and a displaced item has been added to the inventory.                   *)
(***************************************************************************)
Compatible(item, slotId) ==
  slotId \in SlotSet /\ equipSlot(item) # NoTag /\ equipSlot(item) \in slots[slotId]

FirstCompatible(item) ==
  IF \E n \in 1..Len(SlotIds) : Compatible(item, SlotIds[n])
  THEN SlotIds[CHOOSE n \in 1..Len(SlotIds) :
                 /\ Compatible(item, SlotIds[n])
                 /\ \A m \in 1..(n - 1) : ~Compatible(item, SlotIds[m])]
  ELSE Null

EquipArguments == ComponentItems \cup {"potion1"}

C17_EquipItemTargets ==
  \A item \in EquipArguments, slotId \in OptionalSlot :
    LET r == equipItem(World, item, slotId)
        target == IF slotId # <<>> THEN slotId[1] ELSE FirstCompatible(item)
    IN  /\ (target = Null \/ ~Compatible(item, target)) => r.ret = FALSE
        /\ r.ret = TRUE =>
             /\ target # Null /\ Compatible(item, target)
             /\ r.s.equipped[target] = item
             /\ ~Tracked(r.s, Own, item)
             /\ equipped[target] # Null => Tracked(r.s, Own, equipped[target])

(***************************************************************************)
(* C18: after InventoryComponent.removeItem(item) the item is neither      *)
(* tracked by the inventory nor held by any equipment slot; a worn item is *)
(* unequipped from its slot before the grid removal is attempted.          *)
(***************************************************************************)
C18_RemoveItemEverywhere ==
  \A item \in ComponentItems :
    LET r == componentRemoveItem(World, item)
    IN  /\ ~Tracked(r.s, Own, item)
        /\ ~Worn(r.s, item)
        /\ Worn(World, item) =>
             /\ Len(r.s.ev) >= 2
             /\ r.s.ev[1] = <<equipment, "unequipped", findSlotOf(World, item), item>>

(***************************************************************************)
(* C19: when canEquipAt(item, slotId) is false (unknown slot, item without *)
(* equip tag, or tag the slot does not accept), Equipment.equip returns    *)
(* null, leaves every slot's occupant unchanged and emits no event.        *)
(***************************************************************************)
C19_RefusedEquipChangesNothing ==
  \A item \in Items, slotId \in SlotArguments :
    LET r == equip(World, item, slotId)
    IN  /\ canEquipAt(World, item, slotId) <=> Compatible(item, slotId)
        /\ ~Compatible(item, slotId) =>
             /\ r.ret = Null
             /\ r.s.equipped = equipped
             /\ r.s.ev = <<>>
             /\ r.s = World

(* A slot holds an item, and an item with a tag that slot does not accept, *)
(* an item without tag and an unknown slot are all refused.                *)
C19_Witness ==
  \E slotId \in SlotSet :
    /\ equipped[slotId] # Null
    /\ \E item \in Items :
         /\ equipSlot(item) # NoTag
         /\ equipSlot(item) \notin slots[slotId]
         /\ equip(World, item, slotId).ret = Null
    /\ \E item \in Items :
         equipSlot(item) = NoTag /\ equip(World, item, slotId).ret = Null
    /\ equip(World, equipped[slotId], "tail").ret = Null

(***************************************************************************)
(* C20: when canEquipAt(item, slotId) is true, Equipment.equip overwrites  *)
(* the slot whether or not it is occupied and returns the item that was in *)
(* the slot (null if there was none); afterwards getEquipped(slotId) is    *)
(* the new item and every other slot is unchanged.                         *)
(***************************************************************************)
C20_EquipOverwrites ==
  \A item \in Items, slotId \in SlotArguments :
    LET r == equip(World, item, slotId)
    IN  canEquipAt(World, item, slotId) =>
          /\ slotId \in SlotSet
          /\ r.ret = equipped[slotId]
          /\ getEquipped(r.s, slotId) = item
          /\ \A other \in SlotSet \ {slotId} : r.s.equipped[other] = equipped[other]
          /\ r.s.grid = grid /\ r.s.items = items

(* A slot holds a weapon and another weapon can take its place; another *)
(* slot is empty and can be filled.                                     *)
C20_Witness ==
  /\ \E slotId \in SlotSet, item \in Items :
       /\ equipped[slotId] \notin {Null, item}
       /\ canEquipAt(World, item, slotId)
       /\ equip(World, item, slotId).ret = equipped[slotId]
       /\ findSlotOf(equip(World, item, slotId).s, item) = slotId
  /\ \E slotId \in SlotSet, item \in Items :
       /\ equipped[slotId] = Null
       /\ canEquipAt(World, item, slotId)
       /\ equip(World, item, slotId).ret = Null

(***************************************************************************)
(* C21: a successful Equipment.equip emits, in this order, unequipped{slot, *)
(* displaced item} if and only if the slot was occupied, then              *)
(* equipped{slot, new item}, then changed, and nothing else.               *)
(***************************************************************************)
C21_EquipEvents ==
  \A item \in Items, slotId \in SlotArguments :
    Compatible(item, slotId) =>
      equip(World, item, slotId).s.ev =
        (IF equipped[slotId] # Null
         THEN << <<equipment, "unequipped", slotId, equipped[slotId]>> >>
         ELSE <<>>)
        \o << <<equipment, "equipped", slotId, item>>, <<equipment, "changed">> >>

(* One slot holds an item that another item can displace; another slot is *)
(* empty and accepts an item.                                             *)
C21_Witness ==
  /\ \E slotId \in SlotSet, item \in Items :
       equipped[slotId] \notin {Null, item} /\ Compatible(item, slotId)
  /\ \E slotId \in SlotSet, item \in Items :
       equipped[slotId] = Null /\ Compatible(item, slotId)

(***************************************************************************)
(* C22: Equipment.unequip(slotId) on an occupied slot empties that slot,   *)
(* returns the removed item and emits unequipped then changed, leaving the *)
(* other slots alone; on an empty or unknown slot it returns null, changes *)
(* no slot and emits nothing.                                              *)
(***************************************************************************)
C22_Unequip ==
  \A slotId \in SlotArguments :
    LET r == unequip(World, slotId)
    IN  IF slotId \in SlotSet /\ equipped[slotId] # Null
        THEN /\ r.ret = equipped[slotId]
             /\ r.s.equipped = [equipped EXCEPT ![slotId] = Null]
             /\ r.s.ev = << <<equipment, "unequipped", slotId, equipped[slotId]>>,
                            <<equipment, "changed">> >>
        ELSE r.ret = Null /\ r.s = World

(* Two slots are occupied and one is empty. *)
C22_Witness ==
  \E a \in SlotSet, b \in SlotSet, c \in SlotSet :
    /\ a # b
    /\ equipped[a] # Null /\ equipped[b] # Null /\ equipped[c] = Null
    /\ unequip(World, a).ret = equipped[a]

(***************************************************************************)
(* C23: canEquipAt(item, slotId) is false for every slot when the item has *)
(* no equipSlot, false for an unknown slot, and otherwise true exactly     *)
(* when the tag is in the slot's accepted types; the result depends on the *)
(* item's tag and the slot's configuration only, not on what is equipped.  *)
(***************************************************************************)
C23_CanEquipAtIsPure ==
  \A item \in Items, slotId \in SlotArguments :
    LET expected == IF equipSlot(item) = NoTag THEN FALSE
                    ELSE IF slotId \notin SlotSet THEN FALSE
                    ELSE equipSlot(item) \in slots[slotId]
    IN  /\ canEquipAt(World, item, slotId) = expected
        /\ \A worn \in [SlotSet -> {Null, item}] :
             canEquipAt([World EXCEPT !.equipped = worn], item, slotId) = expected

(* A slot whose accepted types were replaced is occupied; one item fits it *)
(* and another item, which has a tag, does not.                            *)
C23_Witness ==
  \E slotId \in SlotSet, a \in Items, b \in Items :
    /\ slots[slotId] # acceptedTypes(slotId)
    /\ equipped[slotId] # Null
    /\ canEquipAt(World, a, slotId)
    /\ equipSlot(b) # NoTag /\ ~canEquipAt(World, b, slotId)

(***************************************************************************)
(* C24: in every state of an Equipment reachable through addSlot, equip,   *)
(* unequip and unequipAll, each slot holds at most one item (an item or    *)
(* null) and the equipSlot tag of every equipped item is among the         *)
(* accepted types of the slot that holds it.                               *)
(***************************************************************************)
C24_EquippedItemsAreAccepted ==
  \A slotId \in SlotSet :
    /\ equipped[slotId] \in Items \cup {Null}
    /\ equipped[slotId] # Null =>
         /\ equipSlot(equipped[slotId]) # NoTag
         /\ equipSlot(equipped[slotId]) \in slots[slotId]

(* A slot registered again with other accepted types holds an item that *)
(* its first configuration would have refused.                          *)
C24_Witness ==
  \E slotId \in SlotSet :
    /\ equipped[slotId] # Null
    /\ slots[slotId] # acceptedTypes(slotId)
    /\ equipSlot(equipped[slotId]) \notin acceptedTypes(slotId)
    /\ \E other \in SlotSet : other # slotId /\ equipped[other] # Null

(***************************************************************************)
(* C25: after any sequence of addItem, removeItem, equipItem (with or      *)
(* without a slot) and unequipItem of the component, no item is equipped   *)
(* in more than one slot, so getAllItems never lists an item twice.        *)
(***************************************************************************)
NoDuplicates(seq) == \A n \in 1..Len(seq), m \in 1..Len(seq) : seq[n] = seq[m] => n = m

C25_NoItemInTwoSlots ==
  /\ \A a \in SlotSet, b \in SlotSet :
       (a # b /\ equipped[a] # Null) => equipped[a] # equipped[b]
  /\ NoDuplicates(getEquippedItems(World))

(***************************************************************************)
(* Events of one operation, emitter by emitter.                            *)
(***************************************************************************)
Emitters == {inventory(k) : k \in Inventories} \cup {equipment}
EventsOf(ev, emitter) == SelectSeq(ev, LAMBDA e : e[1] = emitter)
IsSpecific(event) ==
  event[2] \in {"itemAdded", "itemRemoved", "itemMoved", "equipped", "unequipped"}
IsChanged(event) == event[2] = "changed"

(* No specific event of an emitter follows a changed of the same emitter. *)
NoSpecificAfterChanged(ev) ==
  \A emitter \in Emitters :
    LET es == EventsOf(ev, emitter)
    IN  \A n \in 1..Len(es), m \in 1..Len(es) :
          (n < m /\ IsChanged(es[n])) => ~IsSpecific(es[m])

(* The last event of every emitter that emitted is a changed. *)
ChangedComesLast(ev) ==
  \A emitter \in Emitters :
    LET es == EventsOf(ev, emitter)
    IN  es # <<>> => IsChanged(es[Len(es)])

(* The events of every single operation of the inventory Own, with any *)
(* target inventory, and of the equipment, from the current state.     *)
SingleCallEvents ==
  {placeAt(World, Own, item, x, y).s.ev : item \in Items, x \in CoordsX, y \in CoordsY}
    \cup {addItem(World, Own, item).s.ev : item \in Items}
    \cup {removeItem(World, Own, item).s.ev : item \in Items}
    \cup {transferTo(World, Own, item, t, xy).s.ev :
            item \in Items, t \in Inventories \ {Own}, xy \in OptionalXY}
    \cup {equip(World, item, slotId).s.ev : item \in Items, slotId \in SlotArguments}
    \cup {unequip(World, slotId).s.ev : slotId \in SlotArguments}

LoopEvents ==
  {clear(World, Own).s.ev, unequipAll(World).s.ev}
    \cup {transferTo(World, Own, item, Own, xy).s.ev : item \in Items, xy \in OptionalXY}

(***************************************************************************)
(* C26 as stated: within every single operation (placeAt, addItem,         *)
(* removeItem, clear, transferTo, equip, unequip, unequipAll) changed is   *)
(* emitted after all the specific events of that operation on that         *)
(* emitter: no specific event follows a changed.                           *)
(***************************************************************************)
C26_NoSpecificEventAfterChanged ==
  \A ev \in SingleCallEvents \cup LoopEvents : NoSpecificAfterChanged(ev)

(***************************************************************************)
(* C26 as amended: the last event every operation emits on an emitter is a *)
(* changed; within placeAt, addItem, removeItem, equip, unequip and a      *)
(* transferTo to another inventory no specific event follows a changed.    *)
(* clear and unequipAll emit one changed for each item they remove, and a  *)
(* transferTo whose target is the source emits one for the placement and   *)
(* one for the removal, so there a specific event may follow a changed.    *)
(***************************************************************************)
C26_ChangedClosesEveryOperation ==
  /\ \A ev \in SingleCallEvents : NoSpecificAfterChanged(ev) /\ ChangedComesLast(ev)
  /\ \A ev \in LoopEvents : ChangedComesLast(ev)

(* The inventory tracks two items and two slots are occupied: clear and *)
(* unequipAll both notify twice.                                        *)
C26_Witness ==
  /\ Len(items[Own]) >= 2
  /\ Len(getEquippedItems(World)) >= 2
  /\ Len(clear(World, Own).s.ev) >= 4
  /\ Len(unequipAll(World).s.ev) >= 4
  /\ \E item \in Range(items[Own]) : transferTo(World, Own, item, 2, <<>>).ret = TRUE

(***************************************************************************)
(* C27: every Inventory or Equipment operation that changes observable     *)
(* state (a grid cell, the tracked set, the quantity of a tracked stack,   *)
(* or a slot's occupant) emits at least one changed on the object it       *)
(* changed before it returns.                                              *)
(***************************************************************************)
Observable(s, k) ==
  <<s.grid[k], s.items[k], [n \in 1..Len(s.items[k]) |-> s.quantity[s.items[k][n]]]>>

Notified(s, emitter) == \E n \in 1..Len(s.ev) : s.ev[n] = <<emitter, "changed">>

ChangesAreNotified(s) ==
  /\ \A k \in Inventories :
       Observable(s, k) # Observable(World, k) => Notified(s, inventory(k))
  /\ s.equipped # equipped => Notified(s, equipment)

C27_EveryChangeEmitsChanged ==
  /\ \A k \in Inventories, item \in TransferItems :
       /\ ChangesAreNotified(addItem(World, k, item).s)
       /\ ChangesAreNotified(removeItem(World, k, item).s)
       /\ \A x \in CoordsX, y \in CoordsY : ChangesAreNotified(placeAt(World, k, item, x, y).s)
       /\ \A t \in Inventories, xy \in OptionalXY :
            ChangesAreNotified(transferTo(World, k, item, t, xy).s)
  /\ \A k \in Inventories : ChangesAreNotified(clear(World, k).s)
  /\ \A item \in Items, slotId \in SlotArguments : ChangesAreNotified(equip(World, item, slotId).s)
  /\ \A slotId \in SlotArguments : ChangesAreNotified(unequip(World, slotId).s)
  /\ ChangesAreNotified(unequipAll(World).s)
  /\ \A slotId \in SlotSet, types \in SlotTypes :
       ChangesAreNotified(addSlot(World, slotId, types).s)

(***************************************************************************)
(* C28: an Item's quantity is always within [0, maxStack], after           *)
(* construction with any integer quantity and after any sequence of        *)
(* addQuantity, removeQuantity and split with any integer amounts.         *)
(***************************************************************************)
C28_QuantityWithinStack ==
  \A item \in Items : quantity[item] \in 0..maxStack(item)

(***************************************************************************)
(* C29: Item.split(amount) with 0 < amount < quantity returns a new        *)
(* instance of the same definition with quantity amount and decrements the *)
(* source by amount, so the two quantities sum to the original; for        *)
(* amount <= 0 or amount >= quantity it returns null and leaves the source *)
(* quantity unchanged.                                                     *)
(***************************************************************************)
C29_SplitConserves ==
  \A item \in ItemInstances, amount \in Amounts :
    LET r == split(World, item, amount)
    IN  IF 0 < amount /\ amount < quantity[item]
        THEN /\ r.ret = <<amount>>
             /\ r.s.quantity[item] = quantity[item] - amount
             /\ r.ret[1] + r.s.quantity[item] = quantity[item]
        ELSE r.ret = <<>> /\ r.s = World

(***************************************************************************)
(* C30: Inventory.clear() behaves like one removeItem for every item       *)
(* tracked at the time of the call: afterwards the tracked set and every   *)
(* cell are empty, every removed item's position is (-1, -1), and for each *)
(* removed item, in the tracked order, an itemRemoved followed by a        *)
(* changed was emitted; nothing else is touched.                           *)
(***************************************************************************)
C30_ClearRemovesEach ==
  \A k \in Inventories :
    LET after == clear(World, k).s
        removed == items[k]
    IN  /\ after.items[k] = <<>>
        /\ \A y \in 0..(invHeight(k) - 1), x \in 0..(invWidth(k) - 1) :
             after.grid[k][y][x] = Null
        /\ \A n \in 1..Len(removed) :
             /\ after.gridX[removed[n]] = -1
             /\ after.gridY[removed[n]] = -1
             /\ after.ev[2 * n - 1] = <<inventory(k), "itemRemoved", removed[n]>>
             /\ after.ev[2 * n] = <<inventory(k), "changed">>
        /\ Len(after.ev) = 2 * Len(removed)
        /\ \A j \in Inventories \ {k} :
             after.items[j] = items[j] /\ after.grid[j] = grid[j]
        /\ after.quantity = quantity /\ after.equipped = equipped

C30_Witness ==
  \E k \in Inventories :
    /\ Len(items[k]) >= 2
    /\ \E y \in 0..(invHeight(k) - 1), x \in 0..(invWidth(k) - 1) : grid[k][y][x] # Null
    /\ Len(clear(World, k).s.ev) = 4

(***************************************************************************)
(* C31: addSlot, including for a slot id that is already registered, never *)
(* changes or drops the item equipped in an existing slot: the equipped    *)
(* items change only through equip, unequip and unequipAll.                *)
(***************************************************************************)
C31_AddSlotKeepsEquipped ==
  \A slotId \in SlotSet, types \in SlotTypes :
    addSlot(World, slotId, types).s.equipped = equipped

(***************************************************************************)
(* Vocabulary of the state machine properties.                             *)
(***************************************************************************)
(* The first entry of a list of transitions whose condition holds on the  *)
(* context: <<>> when there is none.                                      *)
FirstHolding(transitions) ==
  LET holding == {n \in 1..Len(transitions) : transitions[n].condition \in context}
  IN  IF holding = {} THEN <<>>
      ELSE <<transitions[CHOOSE n \in holding : \A k \in holding : n <= k]>>

OwnTransitions == states[currentState][1].transitions

(* Global transitions first, then the state's own, nothing skipped. *)
FirstOfAll == FirstHolding(globalTransitions \o OwnTransitions)

(* The first global transition that holds, unless it targets the current *)
(* state; then the first of the state's own that holds.                  *)
FirstNotToSelf ==
  LET g == FirstHolding(globalTransitions)
  IN  IF g # <<>> /\ g[1].to # currentState THEN g ELSE FirstHolding(OwnTransitions)

EntersOf(ev) == SelectSeq(ev, LAMBDA e : e[2] = "stateEnter")
UpdatesOf(ev) == SelectSeq(ev, LAMBDA e : e[2] \in {"onUpdate", "stateUpdate"})

ExpectedUpdates(deltaTime) ==
  (IF states[currentState][1].config.onUpdate
   THEN <<(<<callback, "onUpdate", currentState, deltaTime>>)>> ELSE <<>>)
  \o <<(<<machine, "stateUpdate", currentState, deltaTime>>)>>

(* What update does, given which transition counts as the first one. *)
UpdateChecks(first) ==
  \A deltaTime \in DeltaTimes :
    LET after == update(Machine, deltaTime).s
    IN  IF currentState = Null THEN after = Machine
        ELSE /\ Len(EntersOf(after.ev)) <= 1
             /\ (first # <<>> /\ states[first[1].to] # <<>>) =>
                  /\ Len(EntersOf(after.ev)) = 1
                  /\ after.currentState = first[1].to
             /\ Len(EntersOf(after.ev)) = 1 =>
                  /\ first # <<>>
                  /\ after.currentState = first[1].to
                  /\ UpdatesOf(after.ev) = <<>>
             /\ first = <<>> =>
                  /\ after.currentState = currentState
                  /\ after.previousState = previousState
                  /\ after.ev = ExpectedUpdates(deltaTime)

(***************************************************************************)
(* C32: update() with a current state makes at most one transition, to the *)
(* target of the first transition whose condition holds on the context;    *)
(* when a transition fires, onUpdate is not run and stateUpdate is not     *)
(* emitted; when no condition holds the current state is unchanged and     *)
(* onUpdate runs; with no current state update does nothing.               *)
(***************************************************************************)
C32_UpdateTakesFirstTransition == UpdateChecks(IF currentState = Null THEN <<>> ELSE FirstOfAll)

(* C32 with the transition update selects: a global transition that holds *)
(* and targets the current state is passed over for the state's own.      *)
(* When the target selected is not registered, nothing happens at all.    *)
C32_UpdateTakesSelectedTransition ==
  /\ UpdateChecks(IF currentState = Null THEN <<>> ELSE FirstNotToSelf)
  /\ (currentState # Null /\ FirstNotToSelf # <<>> /\ states[FirstNotToSelf[1].to] = <<>>) =>
       \A deltaTime \in DeltaTimes : update(Machine, deltaTime).s = Machine

C32_Witness ==
  /\ currentState # Null
  /\ FirstNotToSelf # <<>>
  /\ \E deltaTime \in DeltaTimes :
       LET after == update(Machine, deltaTime).s
       IN  after.currentState # currentState /\ Len(EntersOf(after.ev)) = 1

(***************************************************************************)
(* C34: update evaluates the global transitions before the current state's *)
(* own, in descending priority order with ties in insertion order; the     *)
(* first global transition whose condition holds fires unless its target   *)
(* is the current state, and then the state's own transitions are          *)
(* evaluated in their declared order.                                      *)
(***************************************************************************)
C34_GlobalTransitionsFirst ==
  /\ \A i, j \in 1..Len(globalTransitions) :
       i < j => priorityOf(globalTransitions[i]) >= priorityOf(globalTransitions[j])
  /\ \A tc \in GlobalTransitionChoices :
       LET old == globalTransitions
           new == addGlobalTransition(Machine, tc).s.globalTransitions
       IN  \E p \in 1..(Len(old) + 1) :
             /\ new = SubSeq(old, 1, p - 1) \o <<tc>> \o SubSeq(old, p, Len(old))
             /\ \A i \in 1..(p - 1) : priorityOf(old[i]) >= priorityOf(tc)
             /\ \A i \in p..Len(old) : priorityOf(old[i]) < priorityOf(tc)
  /\ currentState # Null =>
       \A deltaTime \in DeltaTimes :
         LET after == update(Machine, deltaTime).s
         IN  /\ FirstNotToSelf # <<>> =>
                  after = transition(Machine, FirstNotToSelf[1].to, FALSE).s
             /\ FirstNotToSelf = <<>> => EntersOf(after.ev) = <<>>

C34_Witness ==
  /\ currentState # Null
  /\ Len(globalTransitions) = 2
  /\ priorityOf(globalTransitions[1]) > priorityOf(globalTransitions[2])
  /\ FirstHolding(globalTransitions) # <<>>
  /\ FirstHolding(globalTransitions)[1].to = currentState
  /\ FirstHolding(OwnTransitions) # <<>>
  /\ update(Machine, 16).s.currentState = FirstHolding(OwnTransitions)[1].to
  /\ update(Machine, 16).s.currentState # currentState

(***************************************************************************)
(* C35: currentState is always null or the name of a registered state:     *)
(* transition(to) to an unregistered name returns false and leaves         *)
(* currentState and previousState unchanged, and removeState of the        *)
(* current state is refused.                                               *)
(***************************************************************************)
C35_CurrentStateIsRegistered ==
  /\ currentState = Null \/ hasState(Machine, currentState)
  /\ \A to \in StateNames, force \in BOOLEAN :
       ~hasState(Machine, to) => transition(Machine, to, force) = Result(Machine, FALSE)
  /\ currentState # Null => removeState(Machine, currentState) = Result(Machine, FALSE)

C35_Witness ==
  /\ currentState # Null
  /\ previousState # Null
  /\ ~hasState(Machine, previousState)
  /\ \E tc \in {globalTransitions[n] : n \in 1..Len(globalTransitions)} :
       /\ tc.condition \in context
       /\ ~hasState(Machine, tc.to)

(***************************************************************************)
(* C36: every successful transition from a non-null state A to a state B   *)
(* emits stateExit{state: A, nextState: B} and then stateEnter{state: B,   *)
(* prevState: A}, in that order, and sets previousState = A and            *)
(* currentState = B.                                                       *)
(***************************************************************************)
C36_ExitThenEnter ==
  \A to \in StateNames, force \in BOOLEAN :
    LET r == transition(Machine, to, force)
    IN  (currentState # Null /\ r.ret) =>
          /\ SelectSeq(r.s.ev, LAMBDA e : e[1] = machine) =
               << <<machine, "stateExit", currentState, to>>,
                  <<machine, "stateEnter", to, currentState>> >>
          /\ r.s.previousState = currentState
          /\ r.s.currentState = to

(* A region of w x h cells of inventory k that is empty once the cells of *)
(* the item are vacated.                                                  *)
RegionOnceVacated(k, item, w, h) ==
  \E c \in Cells(k) :
    /\ Footprint(c[1], c[2], w, h) \subseteq Cells(k)
    /\ \A d \in Footprint(c[1], c[2], w, h) : grid[k][d[2]][d[1]] \in {Null, item}

(***************************************************************************)
(* C33: equipItem vacates the equipped item's own grid cells before it     *)
(* re-homes the displaced item: when the only region of the inventory that *)
(* can hold the displaced item overlaps the footprint of the item being    *)
(* equipped, equipItem returns true and the two items swap places (new     *)
(* item in the slot, displaced item in the grid).                          *)
(***************************************************************************)
C33_EquipItemSwapsInPlace ==
  \A item \in ComponentItems, slotId \in OptionalSlot :
    LET target == IF slotId # <<>> THEN slotId[1] ELSE FirstCompatible(item)
        r == equipItem(World, item, slotId)
    IN  (/\ target # Null /\ Compatible(item, target)
         /\ equipped[target] \notin {Null, item}
         /\ Tracked(World, Own, item)
         /\ ~EmptyRegionExists(Own, width(equipped[target]), height(equipped[target]))
         /\ RegionOnceVacated(Own, item, width(equipped[target]), height(equipped[target])))
        => LET displaced == equipped[target]
           IN  /\ r.ret = TRUE
               /\ r.s.equipped[target] = item
               /\ ~Tracked(r.s, Own, item)
               /\ Occupied(r.s, Own, item) = {}
               /\ Tracked(r.s, Own, displaced)
               /\ Occupied(r.s, Own, displaced) =
                    Footprint(r.s.gridX[displaced], r.s.gridY[displaced],
                              width(displaced), height(displaced))

C33_Witness ==
  \E item \in ComponentItems, slotId \in OptionalSlot :
    LET target == IF slotId # <<>> THEN slotId[1] ELSE FirstCompatible(item)
    IN  /\ target # Null /\ Compatible(item, target)
        /\ equipped[target] \notin {Null, item}
        /\ Tracked(World, Own, item)
        /\ ~EmptyRegionExists(Own, width(equipped[target]), height(equipped[target]))
        /\ RegionOnceVacated(Own, item, width(equipped[target]), height(equipped[target]))
        /\ equipItem(World, item, slotId).ret = TRUE
        /\ Tracked(equipItem(World, item, slotId).s, Own, equipped[target])

(***************************************************************************)
(* C38: a successful transferTo never drops the item: whenever             *)
(* transferTo(item, target, x?, y?) returns true and the item's quantity   *)
(* is positive, the item is tracked by the target and occupies its         *)
(* footprint there, including when the target is the source itself.        *)
(***************************************************************************)
C38_TransferKeepsItem ==
  \A k \in Inventories, item \in TransferItems, t \in Inventories, xy \in OptionalXY :
    LET r == transferTo(World, k, item, t, xy)
    IN  (r.ret = TRUE /\ r.s.quantity[item] > 0) =>
          /\ Tracked(r.s, t, item)
          /\ Occupied(r.s, t, item) =
               Footprint(r.s.gridX[item], r.s.gridY[item], width(item), height(item))

(***************************************************************************)
(* C39: whenever InventoryComponent.removeItem(item) returns false,        *)
(* nothing has changed: no inventory cell, no tracked item and no          *)
(* equipment slot differs from before the call, and no event was emitted.  *)
(***************************************************************************)
C39_RemoveItemFalseChangesNothing ==
  \A item \in ComponentItems :
    LET r == componentRemoveItem(World, item)
    IN  r.ret = FALSE =>
          /\ r.s.grid = grid
          /\ r.s.items = items
          /\ r.s.equipped = equipped
          /\ r.s.ev = <<>>

(***************************************************************************)
(* C40: whenever Inventory.addItem(item) returns false, the inventory and  *)
(* the item are unchanged: the grid and tracked set are the same, every    *)
(* tracked stack has the same quantity as before, and the incoming item's  *)
(* quantity is the same as before the call.                                *)
(***************************************************************************)
C40_AddItemFalseChangesNothing ==
  \A k \in Inventories, item \in TransferItems :
    LET r == addItem(World, k, item)
    IN  r.ret = FALSE =>
          /\ r.s.grid[k] = grid[k]
          /\ r.s.items[k] = items[k]
          /\ \A tracked \in Range(items[k]) : r.s.quantity[tracked] = quantity[tracked]
          /\ r.s.quantity[item] = quantity[item]

(* How many places of the component hold the item: the inventory's tracked *)
(* set counts once, every slot that holds it counts once.                  *)
Places(s, item) ==
  (IF Tracked(s, Own, item) THEN 1 ELSE 0)
  + Cardinality({slotId \in SlotSet : s.equipped[slotId] = item})

(* The handler calls the UI can make in the current state. *)
HandlerResults ==
  {handleInventorySlotClick(World, c[1], c[2], getItemAt(World, Own, c[1], c[2])).s :
     c \in Cells(Own)}
  \cup {handleInventorySlotRightClick(World, c[1], c[2], getItemAt(World, Own, c[1], c[2])).s :
          c \in Cells(Own)}
  \cup {handleEquipSlotClick(World, slotId, getEquipped(World, slotId)).s : slotId \in SlotSet}
  \cup {handleEquipSlotRightClick(World, slotId, getEquipped(World, slotId)).s :
          slotId \in SlotSet}

(***************************************************************************)
(* C37: no sequence of InventoryScreen click handlers, right-clicks during *)
(* a drag included, loses or duplicates an item: every item that was in    *)
(* the component's inventory or equipment is afterwards in exactly one of  *)
(* them.                                                                   *)
(***************************************************************************)
C37_ClicksKeepEveryItemOnce ==
  /\ \A item \in ComponentItems : Places(World, item) <= 1
  /\ \A after \in HandlerResults :
       \A item \in ComponentItems :
         Places(World, item) = 1 => Places(after, item) = 1

=============================================================================
